---- MODULE Spec2Model ----
(***************************************************************************)
(* Jump-and-link (JAL): the text anchoring core of the browser extension.  *)
(* A message is an ordered sequence of text leaves; its canonical text is  *)
(* their concatenation.  An anchor is created from a selection, stored,    *)
(* and later re-resolved (reanchor) and materialised as a DOM range        *)
(* (createRangeForAnchor).                                                 *)
(*                                                                         *)
(* Strings are sequences of one-character strings.  Positions are 0-based  *)
(* as in the JavaScript source; At(s, i) is the source's s[i].             *)
(***************************************************************************)
EXTENDS Integers, Sequences, FiniteSets, TLC

VARIABLES
  leaves,     \* the message element: its ordered sequence of text leaves
  selection,  \* window.getSelection() inside the message, or NoSelection
  anchor,     \* the anchor of the comment under consideration (the
              \* pendingAnchor of the comment input), or NoAnchor
  op,         \* the operation that ran last
  ret,        \* what that operation returned
  args,       \* the arguments of a function called on its own, or Null
  dataJalMessage,  \* the message's data-jal-message attribute, Null when
                   \* it has none, NoElement while the message is not in
                   \* the document
  comments,   \* JAL.state.comments
  storage,    \* the comments of the page in chrome.storage
  highlights, \* JAL.state.ui.highlights: commentId -> the range highlighted
  pendingHighlights,  \* the temporary highlight of the comment input, or Null
  retry,      \* the retry chain of loadComments, or Null before the load
  commentsInComposer,  \* JAL.state.commentsInComposer
  composerContent,     \* the composer: the comments whose entry is in its
                       \* text, and UserText when it holds other text
  userMessages,        \* the comments whose entry is in a user message sent
  assistant,           \* the assistant's messages: their count, whether one
                       \* is streaming, whether a response is awaited
  visualState,         \* the colour of each comment's highlight
  emptyCheck,          \* the polling chain of checkForRemovedComments
  observing,           \* the locals of the startComposerObserving interval
  background,          \* the UPDATE_COMMENT handlers of the background worker
                       \* that have not finished, oldest first
  selectedComments,    \* JAL.state.selectedComments
  jumpStack,           \* the jump stack of the page in chrome.storage
  pendingJump          \* JAL.state.pendingJump

\* the state of the content script around the anchoring core
page == <<dataJalMessage, comments, storage, highlights, pendingHighlights, retry>>

\* the state of composer tracking and of the jump stack
tracking == <<commentsInComposer, composerContent, userMessages, assistant,
              visualState, emptyCheck, observing, background,
              selectedComments, jumpStack, pendingJump>>

vars == <<leaves, selection, anchor, op, ret, args, page, tracking>>

\* nothing tracked, nothing in flight, no response awaited
TrackingIdle ==
  /\ commentsInComposer = {}
  /\ composerContent = {}
  /\ userMessages = {}
  /\ assistant = [count |-> 0, streaming |-> FALSE, awaited |-> FALSE]
  /\ visualState = <<>>
  /\ emptyCheck = [waiting |-> FALSE, initialCount |-> 0, pollCount |-> 0]
  /\ observing = [lastAssistantCount |-> 0, waitingForResponse |-> FALSE]
  /\ background = <<>>
  /\ selectedComments = {}
  /\ jumpStack = <<>>
  /\ pendingJump = [null |-> TRUE]

(***************************************************************************)
(* Characters and character classes (the regular expressions \s and \w).   *)
(***************************************************************************)
UpperSeq == <<"A","B","C","D","E","F","G","H","I","J","K","L","M",
              "N","O","P","Q","R","S","T","U","V","W","X","Y","Z">>
LowerSeq == <<"a","b","c","d","e","f","g","h","i","j","k","l","m",
              "n","o","p","q","r","s","t","u","v","w","x","y","z">>
Digits == {"0","1","2","3","4","5","6","7","8","9"}

Range(f) == {f[i] : i \in DOMAIN f}

\* /\s/
IsSpace(c) == c \in {" ", "\n", "\t"}

\* /\w/
IsWord(c) == c \in Range(UpperSeq) \cup Range(LowerSeq) \cup Digits \cup {"_"}

\* String.prototype.toLowerCase on one character
ToLowerChar(c) ==
  IF c \in Range(UpperSeq)
    THEN LowerSeq[CHOOSE i \in DOMAIN UpperSeq : UpperSeq[i] = c]
    ELSE c

\* Characters outside ASCII are written as their code points.
CJKIdeographs == {"<U+4E2D>", "<U+6587>"}
CJKBlockPunctuation == {"<U+3002>", "<U+3001>"}
FullwidthPunctuation == {"<U+FF01>", "<U+FF1F>", "<U+FF1B>", "<U+FF0C>", "<U+FF1A>"}

\* isCJK: the code is in one of the CJK ranges (U+3000-303F, U+4E00-9FFF, ...)
isCJK(c) == c \in CJKIdeographs \cup CJKBlockPunctuation

\* isChinese: sentence punctuation that needs no space after it
isChinese(c) == c \in {"<U+3002>", "<U+FF01>", "<U+FF1F>", "<U+FF1B>"}

\* SENTENCE_END
IsSentenceEnd(c) == c \in {".", "!", "?", "\n"} \/ isChinese(c)

\* the punctuation class of the pure-CJK test of expandToFullWords
IsCJKPunctuation(c) ==
  IsSpace(c) \/ c \in {"<U+FF0C>", "<U+3002>", "<U+FF01>", "<U+FF1F>", "<U+3001>",
                       "<U+FF1B>", "<U+FF1A>"}

Min(a, b) == IF a < b THEN a ELSE b
Max(a, b) == IF a > b THEN a ELSE b

(***************************************************************************)
(* JavaScript string primitives.                                           *)
(***************************************************************************)
\* s[i], 0-based
At(s, i) == s[i + 1]

\* s[i] where i may be out of range: undefined is written ""
CharAt(s, i) == IF 0 <= i /\ i < Len(s) THEN s[i + 1] ELSE ""

\* String.prototype.slice(from, to): negative indices count from the end
Slice(s, from, to) ==
  LET n == Len(s)
      f == IF from < 0 THEN Max(n + from, 0) ELSE Min(from, n)
      t == IF to < 0 THEN Max(n + to, 0) ELSE Min(to, n)
  IN  IF f >= t THEN <<>> ELSE SubSeq(s, f + 1, t)

\* does sub occur in s at 0-based position i
MatchesAt(s, sub, i) ==
  /\ i >= 0
  /\ i + Len(sub) <= Len(s)
  /\ \A k \in 1..Len(sub) : s[i + k] = sub[k]

\* String.prototype.indexOf(sub, from): the least position >= from where sub
\* occurs, -1 when there is none
IndexOfFrom(s, sub, from) ==
  LET f == Min(Max(from, 0), Len(s))
      last == Len(s) - Len(sub)
  IN  IF \E i \in f..last : MatchesAt(s, sub, i)
        THEN CHOOSE i \in f..last :
               /\ MatchesAt(s, sub, i)
               /\ \A j \in f..(i - 1) : ~MatchesAt(s, sub, j)
        ELSE -1

IndexOf(s, sub) == IndexOfFrom(s, sub, 0)

\* String.prototype.lastIndexOf(sub)
LastIndexOf(s, sub) ==
  LET last == Len(s) - Len(sub)
  IN  IF \E i \in 0..last : MatchesAt(s, sub, i)
        THEN CHOOSE i \in 0..last :
               /\ MatchesAt(s, sub, i)
               /\ \A j \in (i + 1)..last : ~MatchesAt(s, sub, j)
        ELSE -1

\* String.prototype.includes
Includes(s, sub) == IndexOf(s, sub) # -1

\* String.prototype.trim
Trim(s) ==
  LET keep == {i \in 1..Len(s) : ~IsSpace(s[i])}
  IN  IF keep = {} THEN <<>>
      ELSE SubSeq(s, CHOOSE i \in keep : \A j \in keep : i <= j,
                     CHOOSE i \in keep : \A j \in keep : i >= j)

\* s.replace(/\s+/g, ' '): every run of whitespace becomes one space
CollapseSpace(s) ==
  LET marked == [i \in 1..Len(s) |->
                   [c |-> IF IsSpace(s[i]) THEN " " ELSE s[i],
                    first |-> ~IsSpace(s[i]) \/ i = 1 \/ ~IsSpace(s[i - 1])]]
      kept == SelectSeq(marked, LAMBDA m : m.first)
  IN  [i \in 1..Len(kept) |-> kept[i].c]

RECURSIVE Concat(_)
\* the concatenation of a sequence of strings
Concat(ss) == IF ss = <<>> THEN <<>> ELSE Head(ss) \o Concat(Tail(ss))

(***************************************************************************)
(* Exact rational numbers for similarity scores and confidences.           *)
(***************************************************************************)
Rat(n, d) == [num |-> n, den |-> d]
RatAdd(x, y) == Rat(x.num * y.den + y.num * x.den, x.den * y.den)
RatLess(x, y) == x.num * y.den < y.num * x.den
RatLeq(x, y) == x.num * y.den <= y.num * x.den
RatEq(x, y) == x.num * y.den = y.num * x.den

(***************************************************************************)
(* JAL.Anchoring: re-anchoring a stored anchor in the current text.        *)
(***************************************************************************)
NoAnchor == [none |-> TRUE]

RECURSIVE findAllMatchesFrom(_, _, _)
findAllMatchesFrom(text, substr, pos) ==
  LET p == IndexOfFrom(text, substr, pos)
  IN  IF p = -1 THEN <<>>
      ELSE <<p>> \o findAllMatchesFrom(text, substr, p + 1)

\* mutant: the scan starts after the first character
findAllMatchesSkippingStart(text, substr) == findAllMatchesFrom(text, substr, 1)

\* All positions of substr in text, overlapping ones included, ascending.
\* (The loop advances by one from each match; substr is never empty here.)
findAllMatches(text, substr) == findAllMatchesFrom(text, substr, 0)

RECURSIVE levFillRow(_, _, _, _, _)
\* matrix[i] from matrix[i-1] (prev); row[j + 1] is matrix[i][j]
levFillRow(a, b, i, prev, cur) ==
  IF Len(cur) = Len(a) + 1 THEN cur
  ELSE LET j == Len(cur)
           v == IF b[i] = a[j]
                  THEN prev[j]
                  ELSE Min(prev[j] + 1, Min(cur[j] + 1, prev[j + 1] + 1))
       IN  levFillRow(a, b, i, prev, Append(cur, v))

RECURSIVE levRows(_, _, _, _)
levRows(a, b, i, prev) ==
  IF i > Len(b) THEN prev
  ELSE levRows(a, b, i + 1, levFillRow(a, b, i, prev, <<i>>))

\* Levenshtein distance by the full matrix, row 0 being 0..a.length
levenshteinDistance(a, b) ==
  levRows(a, b, 1, [j \in 1..(Len(a) + 1) |-> j - 1])[Len(a) + 1]

\* Simple similarity score (0-1)
similarity(a, b) ==
  IF a = <<>> \/ b = <<>> THEN Rat(0, 1)
  ELSE IF a = b THEN Rat(1, 1)
  ELSE LET longer == IF Len(a) > Len(b) THEN a ELSE b
           shorter == IF Len(a) > Len(b) THEN b ELSE a
       IN  Rat(Len(longer) - levenshteinDistance(longer, shorter), Len(longer))

\* the context score of one candidate position (the loop body)
contextScore(text, pos, prefix, suffix, quoteLen) ==
  LET ps == IF prefix # <<>>
              THEN similarity(Slice(text, Max(0, pos - Len(prefix)), pos), prefix)
              ELSE Rat(0, 1)
      ss == IF suffix # <<>>
              THEN similarity(Slice(text, pos + quoteLen,
                                    pos + quoteLen + Len(suffix)), suffix)
              ELSE Rat(0, 1)
  IN  IF prefix # <<>> /\ suffix # <<>> THEN RatAdd(ps, ss)
      ELSE IF prefix # <<>> THEN ps
      ELSE ss

RECURSIVE disambiguateLoop(_, _, _, _, _, _)
disambiguateLoop(text, positions, prefix, suffix, quoteLen, best) ==
  IF positions = <<>> THEN best
  ELSE LET pos == Head(positions)
           score == contextScore(text, pos, prefix, suffix, quoteLen)
           nb == IF RatLess(best.score, score)
                   THEN [position |-> pos, score |-> score]
                   ELSE best
       IN  disambiguateLoop(text, Tail(positions), prefix, suffix, quoteLen, nb)

RECURSIVE disambiguateLoopLastWins(_, _, _, _, _, _)
disambiguateLoopLastWins(text, positions, prefix, suffix, quoteLen, best) ==
  IF positions = <<>> THEN best
  ELSE LET pos == Head(positions)
           score == contextScore(text, pos, prefix, suffix, quoteLen)
           nb == IF RatLeq(best.score, score)
                   THEN [position |-> pos, score |-> score]
                   ELSE best
       IN  disambiguateLoopLastWins(text, Tail(positions), prefix, suffix,
                                    quoteLen, nb)

\* mutant: score >= best.score, so the last of several equal candidates wins
disambiguateByContextLastWins(text, positions, prefix, suffix, quoteLen) ==
  disambiguateLoopLastWins(text, positions, prefix, suffix, quoteLen,
                           [position |-> positions[1], score |-> Rat(0, 1)])

\* Disambiguate multiple matches using prefix/suffix context
disambiguateByContext(text, positions, prefix, suffix, quoteLen) ==
  disambiguateLoop(text, positions, prefix, suffix, quoteLen,
                   [position |-> positions[1], score |-> Rat(0, 1)])

windowSize == 200
MinFuzzyPrefix == 20

RECURSIVE fuzzyLoop(_, _, _, _)
fuzzyLoop(searchArea, query, start, len) ==
  IF len < Min(MinFuzzyPrefix, Len(query)) THEN -1
  ELSE LET idx == IndexOf(searchArea, Slice(query, 0, len))
       IN  IF idx # -1 THEN start + idx
           ELSE fuzzyLoop(searchArea, query, start, len - 1)

RECURSIVE fuzzyLoopAnyPrefix(_, _, _, _)
fuzzyLoopAnyPrefix(searchArea, query, start, len) ==
  IF len < 1 THEN -1
  ELSE LET idx == IndexOf(searchArea, Slice(query, 0, len))
       IN  IF idx # -1 THEN start + idx
           ELSE fuzzyLoopAnyPrefix(searchArea, query, start, len - 1)

\* mutant: prefixes are tried down to one character
fuzzyFindAnyPrefix(text, query, hint) ==
  LET start == Max(0, hint - windowSize)
      end == Min(Len(text), hint + Len(query) + windowSize)
  IN  fuzzyLoopAnyPrefix(Slice(text, start, end), query, start, Len(query))

RECURSIVE fuzzyLoopNoOffset(_, _, _)
fuzzyLoopNoOffset(searchArea, query, len) ==
  IF len < Min(MinFuzzyPrefix, Len(query)) THEN -1
  ELSE LET idx == IndexOf(searchArea, Slice(query, 0, len))
       IN  IF idx # -1 THEN idx
           ELSE fuzzyLoopNoOffset(searchArea, query, len - 1)

\* mutant: the index in the search area is returned without the window start
fuzzyFindNoOffset(text, query, hint) ==
  LET start == Max(0, hint - windowSize)
      end == Min(Len(text), hint + Len(query) + windowSize)
  IN  fuzzyLoopNoOffset(Slice(text, start, end), query, Len(query))

\* Fuzzy find: progressively shorter prefixes of query near hint
fuzzyFind(text, query, hint) ==
  LET start == Max(0, hint - windowSize)
      end == Min(Len(text), hint + Len(query) + windowSize)
  IN  fuzzyLoop(Slice(text, start, end), query, start, Len(query))

\* Find position using just the legacy context
findByContext(text, prefix, suffix) ==
  IF prefix = <<>> /\ suffix = <<>> THEN -1
  ELSE IF prefix # <<>> /\ IndexOf(text, prefix) # -1
    THEN IndexOf(text, prefix) + Len(prefix)
  ELSE IF suffix # <<>> /\ IndexOf(text, suffix) # -1
    THEN IndexOf(text, suffix)
  ELSE -1

\* s.replace(/[^\w\s]/g, '')
StripSpecial(s) == SelectSeq(s, LAMBDA c : IsWord(c) \/ IsSpace(c))

ToLower(s) == [i \in DOMAIN s |-> ToLowerChar(s[i])]

normalizeForSearch(text) == Trim(ToLower(StripSpecial(CollapseSpace(text))))

MinNormalizedLen == 5

RECURSIVE mapBackLoop(_, _, _, _, _)
\* the rescan of the original text: returns origPos
mapBackLoop(messageText, normPos, i, normCount, origPos) ==
  IF ~(i < Len(messageText) /\ normCount < normPos) THEN origPos
  ELSE LET char == At(messageText, i)
           counted == IsWord(char) \/ IsSpace(char)
       IN  mapBackLoop(messageText, normPos, i + 1,
                       IF counted THEN normCount + 1 ELSE normCount, i)

\* Find position using normalized comparison
findNormalizedPosition(messageText, quote, startHint) ==
  LET p1 == IndexOfFrom(messageText, quote, Max(0, startHint - 10))
      p2 == IndexOf(messageText, quote)
      p3 == fuzzyFind(messageText, quote, startHint)
      normQuote == normalizeForSearch(quote)
      normMessage == normalizeForSearch(messageText)
      normPos == IndexOf(normMessage, normQuote)
  IN  IF p1 # -1 THEN p1
      ELSE IF p2 # -1 THEN p2
      ELSE IF p3 # -1 THEN p3
      ELSE IF Len(normQuote) < MinNormalizedLen THEN startHint
      ELSE IF normPos # -1 THEN mapBackLoop(messageText, normPos, 0, 0, 0)
      ELSE startHint

ConfExact == Rat(10, 10)
ConfFuzzy == Rat(7, 10)
ConfContext == Rat(5, 10)
ConfNormalized == Rat(4, 10)
ConfFallback == Rat(2, 10)

Resolution(pos, conf) == [success |-> TRUE, position |-> pos, confidence |-> conf]

\* mutant: the result of findByContext is used without the test against -1
reanchorUncheckedContext(a, messageText) ==
  LET exactMatches == findAllMatches(messageText, a.quoteExact)
      best == disambiguateByContext(messageText, exactMatches, a.prefix,
                                    a.suffix, Len(a.quoteExact))
      fuzzyMatch == fuzzyFind(messageText, a.quoteExact, a.startHint)
      contextMatch == findByContext(messageText, a.prefix, a.suffix)
  IN  IF Len(exactMatches) = 1 THEN Resolution(exactMatches[1], ConfExact)
      ELSE IF Len(exactMatches) > 1 THEN Resolution(best.position, best.score)
      ELSE IF fuzzyMatch # -1 THEN Resolution(fuzzyMatch, ConfFuzzy)
      ELSE Resolution(contextMatch, ConfContext)

\* Re-anchor: find the quote in message text, handling slight variations
reanchor(a, messageText) ==
  LET exactMatches == findAllMatches(messageText, a.quoteExact)
      best == disambiguateByContext(messageText, exactMatches, a.prefix,
                                    a.suffix, Len(a.quoteExact))
      fuzzyMatch == fuzzyFind(messageText, a.quoteExact, a.startHint)
      contextMatch == findByContext(messageText, a.prefix, a.suffix)
      normalizedPos == findNormalizedPosition(messageText, a.quoteExact, a.startHint)
  IN  IF Len(exactMatches) = 1 THEN Resolution(exactMatches[1], ConfExact)
      ELSE IF Len(exactMatches) > 1 THEN Resolution(best.position, best.score)
      ELSE IF fuzzyMatch # -1 THEN Resolution(fuzzyMatch, ConfFuzzy)
      ELSE IF contextMatch # -1 THEN Resolution(contextMatch, ConfContext)
      ELSE IF normalizedPos # a.startHint /\ normalizedPos >= 0
        THEN Resolution(normalizedPos, ConfNormalized)
      ELSE Resolution(a.startHint, ConfFallback)

\* Utils.getTextContent: the canonical text of the message element
getTextContent(ls) == Concat(ls)

(***************************************************************************)
(* JAL.Utils.fingerprint: a 32-bit hash of a sample of the text, in base   *)
(* 36.  A 32-bit word is kept as two 16-bit halves [hi, lo].               *)
(***************************************************************************)
IndexIn(seq, c) == CHOOSE i \in 1..Len(seq) : seq[i] = c

DigitSeq == <<"0","1","2","3","4","5","6","7","8","9">>

\* the characters of the texts of the model other than letters and digits,
\* with their codes
OtherCharCodes ==
  { <<"\n", 10>>, <<" ", 32>>, <<"!", 33>>, <<"-", 45>>, <<".", 46>>, <<"?", 63>>,
    <<"|", 124>>, <<"<U+3001>", 12289>>, <<"<U+3002>", 12290>>,
    <<"<U+4E2D>", 20013>>, <<"<U+6587>", 25991>>, <<"<U+FF01>", 65281>>,
    <<"<U+FF0C>", 65292>>, <<"<U+FF1A>", 65306>>, <<"<U+FF1B>", 65307>>,
    <<"<U+FF1F>", 65311>> }

\* the code of every character of the model: 'a' is 97, 'A' 65, '0' 48
CharCodes ==
  [c \in Range(LowerSeq) \cup Range(UpperSeq) \cup Range(DigitSeq)
         \cup {p[1] : p \in OtherCharCodes} |->
     IF c \in Range(LowerSeq) THEN 96 + IndexIn(LowerSeq, c)
     ELSE IF c \in Range(UpperSeq) THEN 64 + IndexIn(UpperSeq, c)
     ELSE IF c \in Range(DigitSeq) THEN 47 + IndexIn(DigitSeq, c)
     ELSE (CHOOSE p \in OtherCharCodes : p[1] = c)[2]]

\* charCodeAt
CharCode(c) == CharCodes[c]

Half == 65536
Word32(hi, lo) == [hi |-> hi, lo |-> lo]

\* hash << 5
shiftLeft5(h) == Word32((h.hi * 32 + (h.lo * 32) \div Half) % Half, (h.lo * 32) % Half)

\* a - b, wrapped to 32 bits
sub32(a, b) ==
  Word32((a.hi - b.hi - (IF a.lo < b.lo THEN 1 ELSE 0) + Half) % Half,
         (a.lo - b.lo + Half) % Half)

\* a + char, wrapped to 32 bits
add32(a, char) == Word32((a.hi + (a.lo + char) \div Half) % Half, (a.lo + char) % Half)

\* hash = h * 32 + char: the subtraction of hash left out
hashStepShiftOnly(hash, char) == add32(shiftLeft5(hash), char)

\* hash = ((hash << 5) - hash) + char; hash = hash & hash
hashStep(hash, char) == add32(sub32(shiftLeft5(hash), hash), char)

RECURSIVE hashLoop(_, _, _, _)
\* for (i = from; i <= to; i++) hash = hashStep(hash, sample[i]): the
\* characters in order, the first half of the stretch (its result is h)
\* before the second
hashLoop(sample, from, to, hash) ==
  IF from > to THEN hash
  ELSE IF from = to THEN hashStep(hash, CharCode(sample[from]))
  ELSE CHOOSE r \in {hashLoop(sample, (from + to) \div 2 + 1, to, h) :
                      h \in {hashLoop(sample, from, (from + to) \div 2, hash)}} : TRUE

\* Simple hash
hashOf(sample) == hashLoop(sample, 1, Len(sample), Word32(0, 0))

\* Math.abs of the word read as a signed 32-bit integer
absWord(h) ==
  IF h.hi < 32768 THEN h
  ELSE Word32((Half - 1 - h.hi + (IF h.lo = 0 THEN 1 ELSE 0)) % Half,
              (Half - h.lo) % Half)

Base36Digits == DigitSeq \o LowerSeq

\* the word divided by 36
div36(w) == Word32(w.hi \div 36, ((w.hi % 36) * Half + w.lo) \div 36)
mod36(w) == ((w.hi % 36) * Half + w.lo) % 36

RECURSIVE toString36(_)
\* Number.prototype.toString(36) of a non-negative integer
toString36(w) ==
  IF w.hi = 0 /\ w.lo < 36 THEN <<Base36Digits[w.lo + 1]>>
  ELSE Append(toString36(div36(w)), Base36Digits[mod36(w) + 1])

RECURSIVE toDecimal(_)
\* the decimal digits of normalized.length in the template string
toDecimal(n) ==
  IF n < 10 THEN <<DigitSeq[n + 1]>>
  ELSE Append(toDecimal(n \div 10), DigitSeq[(n % 10) + 1])

\* `${prefix}|${suffix}|${normalized.length}`
sampleOf(normalized) ==
  Slice(normalized, 0, 100) \o <<"|">> \o Slice(normalized, -100, Len(normalized))
    \o <<"|">> \o toDecimal(Len(normalized))

\* text.trim().replace(/\s+/g, ' ')
normalizedOf(text) == CollapseSpace(Trim(text))

\* Create a fingerprint hash from text
fingerprint(text) ==
  IF text = <<>> THEN <<>>
  ELSE toString36(absWord(hashOf(sampleOf(normalizedOf(text)))))

(***************************************************************************)
(* JAL.Anchoring: creating an anchor from a selection.                     *)
(* A selection is a pair of offsets into the text of the leaf sequence     *)
(* (the text before its start leaf and offset, and before its end).        *)
(***************************************************************************)
NoSelection == [none |-> TRUE]
Null == [null |-> TRUE]

Selection(s, e) == [start |-> s, end |-> e]

isCollapsed(sel) == sel.start = sel.end

\* selection.toString()
SelectionText(sel, ls) == Slice(Concat(ls), sel.start, sel.end)

\* Clean duplicated equation text from a selection.  A selection over the leaf
\* sequence holds no rendering duplicate, so its normalized text occurs in the
\* normalized message and is returned as it is (the reconciliation strategies
\* that follow in the source apply to selections that hold duplicates).
cleanEquationDuplicates(text, msgText) ==
  IF text = <<>> \/ msgText = <<>> THEN text
  ELSE LET normalizedText == Trim(CollapseSpace(text))
           normalizedMessage == CollapseSpace(msgText)
       IN  IF Includes(normalizedMessage, normalizedText) THEN normalizedText
           ELSE normalizedText

\* text.split(/\s+/).filter(w => w.length > 0)
Words(text) ==
  LET n == Len(text)
      starts == {i \in 1..n : ~IsSpace(text[i]) /\ (i = 1 \/ IsSpace(text[i - 1]))}
      EndOf(i) == CHOOSE j \in i..n :
                    /\ \A k \in i..j : ~IsSpace(text[k])
                    /\ (j = n \/ IsSpace(text[j + 1]))
      Nth(k) == CHOOSE i \in starts : Cardinality({j \in starts : j < i}) = k - 1
  IN  [k \in 1..Cardinality(starts) |-> SubSeq(text, Nth(k), EndOf(Nth(k)))]

RECURSIVE JoinWords(_)
\* words.join(' ')
JoinWords(ws) ==
  IF ws = <<>> THEN <<>>
  ELSE IF Len(ws) = 1 THEN ws[1]
  ELSE ws[1] \o <<" ">> \o JoinWords(Tail(ws))

\* while (start > 0 && !/\s/.test(messageText[start - 1])) start--
WordStart(msgText, start) ==
  IF start <= 0 THEN start
  ELSE CHOOSE k \in 0..start :
         /\ (k = 0 \/ IsSpace(CharAt(msgText, k - 1)))
         /\ \A j \in (k + 1)..start : ~IsSpace(CharAt(msgText, j - 1))

RECURSIVE fragmentLoop(_, _, _, _, _)
\* the end of the first word, from its full length down to 2 characters
fragmentLoop(msgText, firstWord, beforeMiddle, searchStart, len) ==
  IF len < 2 THEN searchStart
  ELSE IF LastIndexOf(beforeMiddle, Slice(firstWord, -len, Len(firstWord))) # -1
    THEN WordStart(msgText, searchStart +
                   LastIndexOf(beforeMiddle, Slice(firstWord, -len, Len(firstWord))))
  ELSE fragmentLoop(msgText, firstWord, beforeMiddle, searchStart, len - 1)

\* the middle words were found at middlePos: search backward for the start
beforeMiddleSearch(msgText, firstWord, middlePos, searchStart) ==
  fragmentLoop(msgText, firstWord, Slice(msgText, searchStart, middlePos),
               searchStart, Len(firstWord))

RECURSIVE patternLoop(_, _, _, _)
\* occurrences sp of ' ' + secondWord from searchPos on, until firstWord lies
\* within the 20 characters before one
patternLoop(msgText, firstWord, pattern, sp) ==
  IF sp = -1 THEN -1
  ELSE IF Includes(Slice(msgText, Max(0, sp - 20), sp), firstWord)
    THEN WordStart(msgText, sp - 1)
  ELSE patternLoop(msgText, firstWord, pattern, IndexOfFrom(msgText, pattern, sp + 1))

RECURSIVE lastResortLoop(_, _, _)
lastResortLoop(text, msgText, len) ==
  IF len < 5 THEN -1
  ELSE IF Includes(msgText, Slice(text, 0, len))
    THEN IndexOf(msgText, Slice(text, 0, len))
  ELSE lastResortLoop(text, msgText, len - 1)

\* the second and third strategies of findByFragments
findByPattern(words, text, msgText, byPattern) ==
  IF Len(words) >= 2 /\ byPattern # -1 THEN byPattern
  ELSE lastResortLoop(text, msgText, Min(Len(text), 30))

findByWords(words, text, msgText, middlePos) ==
  IF Len(words) = 0 THEN -1
  ELSE IF Len(words) >= 3 /\ middlePos # -1
    THEN beforeMiddleSearch(msgText, words[1], middlePos, Max(0, middlePos - 100))
  ELSE findByPattern(words, text, msgText,
         IF Len(words) >= 2
           THEN patternLoop(msgText, words[1], <<" ">> \o words[2],
                            IndexOf(msgText, <<" ">> \o words[2]))
           ELSE -1)

\* words.slice(1, -1).join(' ')
middleWords(words) == JoinWords(SubSeq(words, 2, Len(words) - 1))

findByMiddle(words, text, msgText) ==
  findByWords(words, text, msgText,
              IF Len(words) >= 3 THEN IndexOf(msgText, middleWords(words)) ELSE -1)

\* Find position by matching start and end fragments of the selection
findByFragments(text, msgText) == findByMiddle(Words(text), text, msgText)

\* the first of the two positions that is not -1
OrElse(pos, other) == IF pos # -1 THEN pos ELSE other

\* where the selected text is in the message: exactly, then with whitespace
\* normalized, then by fragments
locateSelection(trimmed, msgText) ==
  OrElse(IndexOf(msgText, trimmed),
         OrElse(IndexOf(CollapseSpace(msgText), CollapseSpace(trimmed)),
                findByFragments(trimmed, msgText)))

\* a character at which word expansion stops
IsWordStop(c) == IsSpace(c) \/ isCJK(c)

\* Expand start to beginning of word (only for non-CJK characters)
expandStart(msgText, start) ==
  IF isCJK(CharAt(msgText, start)) THEN start
  ELSE CHOOSE k \in 0..start :
         /\ (k = 0 \/ IsWordStop(CharAt(msgText, k - 1)))
         /\ \A j \in (k + 1)..start : ~IsWordStop(CharAt(msgText, j - 1))

\* Expand end to end of word (only for non-CJK characters)
expandEnd(msgText, end) ==
  IF isCJK(CharAt(msgText, end - 1)) THEN end
  ELSE CHOOSE k \in end..Len(msgText) :
         /\ (k = Len(msgText) \/ IsWordStop(CharAt(msgText, k)))
         /\ \A j \in end..(k - 1) : ~IsWordStop(CharAt(msgText, j))

isPureCJK(trimmed) ==
  \A i \in 1..Len(trimmed) : isCJK(trimmed[i]) \/ IsCJKPunctuation(trimmed[i])

\* Safety: for pure CJK text, never expand beyond original selection
clampPureCJK(trimmed, res) ==
  IF isPureCJK(trimmed) /\ Len(res) > Len(trimmed) THEN trimmed ELSE res

expandAt(trimmed, msgText, pos) ==
  IF pos = -1 THEN trimmed
  ELSE clampPureCJK(trimmed,
         Slice(msgText, expandStart(msgText, pos),
               expandEnd(msgText, Min(pos + Len(trimmed), Len(msgText)))))

\* Expand text to include full words at its boundaries
expandToFullWords(text, msgText) ==
  IF text = <<>> \/ msgText = <<>> THEN text
  ELSE IF Trim(text) = <<>> THEN text
  ELSE expandAt(Trim(text), msgText, locateSelection(Trim(text), msgText))

\* Expand selection to include full words (no equation element in the
\* message).  Its null is written as the empty string: both are falsy to
\* createAnchor, its caller.
expandSelection(sel, ls, msgText) ==
  IF sel = NoSelection \/ isCollapsed(sel) THEN <<>>
  ELSE Trim(expandToFullWords(
              cleanEquationDuplicates(Trim(SelectionText(sel, ls)), msgText), msgText))

\* getTextBeforeNode(range.startContainer, range.startOffset).length
TextBeforeLength(sel) == sel.start

\* Find approximate position of selection in message text
findPositionInText(msgText, quote, sel) ==
  OrElse(IndexOf(msgText, quote), TextBeforeLength(sel))

\* a sentence boundary of the backward scan, at position i
IsBoundaryBefore(msgText, i) ==
  /\ IsSentenceEnd(CharAt(msgText, i))
  /\ \/ CharAt(msgText, i) = "\n"
     \/ isChinese(CharAt(msgText, i))
     \/ IsSpace(CharAt(msgText, i + 1))

\* Find sentence start: look backwards from pos - 1
sentenceStart(msgText, pos) ==
  IF \E i \in 0..(pos - 1) : IsBoundaryBefore(msgText, i)
    THEN 1 + CHOOSE i \in 0..(pos - 1) :
               /\ IsBoundaryBefore(msgText, i)
               /\ \A j \in (i + 1)..(pos - 1) : ~IsBoundaryBefore(msgText, j)
    ELSE 0

\* the end of the sentence whose terminator is at i
endAt(msgText, i) == IF CharAt(msgText, i) = "\n" THEN i ELSE i + 1

\* a forward scan that starts at the beginning of the text rather than at the
\* end of the quote
sentenceEndFromStart(msgText, quoteEndPos) ==
  IF \E i \in 0..(Len(msgText) - 1) : IsSentenceEnd(CharAt(msgText, i))
    THEN endAt(msgText,
               CHOOSE i \in 0..(Len(msgText) - 1) :
                 /\ IsSentenceEnd(CharAt(msgText, i))
                 /\ \A j \in 0..(i - 1) : ~IsSentenceEnd(CharAt(msgText, j)))
    ELSE Len(msgText)

\* Find sentence end: look forwards from the end of the quote
sentenceEnd(msgText, quoteEndPos) ==
  IF \E i \in quoteEndPos..(Len(msgText) - 1) : IsSentenceEnd(CharAt(msgText, i))
    THEN endAt(msgText,
               CHOOSE i \in quoteEndPos..(Len(msgText) - 1) :
                 /\ IsSentenceEnd(CharAt(msgText, i))
                 /\ \A j \in quoteEndPos..(i - 1) : ~IsSentenceEnd(CharAt(msgText, j)))
    ELSE Len(msgText)

\* Extract the complete sentence containing the quote as context
extractSentenceContext(msgText, quote, startHint) ==
  IF msgText = <<>> \/ startHint < 0 \/ startHint >= Len(msgText) THEN <<>>
  ELSE Trim(Slice(msgText,
                  sentenceStart(msgText, Min(startHint, Len(msgText) - 1)),
                  sentenceEnd(msgText,
                    Min(Min(startHint, Len(msgText) - 1) + Len(quote), Len(msgText)))))

Anchor(fp, q, ctx, pre, suf, hint) ==
  [messageFingerprint |-> fp, quoteExact |-> q, contextSentences |-> ctx,
   prefix |-> pre, suffix |-> suf, startHint |-> hint]

\* the anchor object, once the position of the quote is known
anchorAt(msgText, quoteExact, startHint) ==
  Anchor(fingerprint(msgText), quoteExact,
         extractSentenceContext(msgText, quoteExact, startHint),
         <<>>, <<>>, startHint)

\* an anchor made of whatever expandSelection returned, the empty quote included
anchorOfQuoteUnchecked(sel, msgText, quoteExact) ==
  anchorAt(msgText, quoteExact, findPositionInText(msgText, quoteExact, sel))

anchorOfQuote(sel, msgText, quoteExact) ==
  IF quoteExact = <<>> THEN Null
  ELSE anchorAt(msgText, quoteExact, findPositionInText(msgText, quoteExact, sel))

\* Create an anchor from a selection within a message
createAnchor(sel, ls, msgText) ==
  IF sel = NoSelection \/ isCollapsed(sel) THEN Null
  ELSE anchorOfQuote(sel, msgText, expandSelection(sel, ls, msgText))

(***************************************************************************)
(* JAL.Anchoring: materialising a resolved anchor as a DOM range.          *)
(* A range is (startNode, startOffset, endNode, endOffset), the nodes      *)
(* being indices into the leaf sequence.                                   *)
(***************************************************************************)
MinHighlight == 10
MaxHighlight == 100
SameNodeSpan == 20

DomRange(sn, so, en, eo) ==
  [startNode |-> sn, startOffset |-> so, endNode |-> en, endOffset |-> eo]

\* range.toString(): the text between the two boundary points
RangeText(ls, r) ==
  IF r.startNode = r.endNode
    THEN Slice(ls[r.startNode], r.startOffset, r.endOffset)
    ELSE Slice(ls[r.startNode], r.startOffset, Len(ls[r.startNode]))
         \o Concat(SubSeq(ls, r.startNode + 1, r.endNode - 1))
         \o Slice(ls[r.endNode], 0, r.endOffset)

\* the loop's variables before the first leaf; node 0 stands for null
WalkStart ==
  [charCount |-> 0, startNode |-> 0, startOffset |-> 0, endNode |-> 0,
   endOffset |-> 0, lastNode |-> 0, lastNodeEnd |-> 0]

\* if (!startNode && charCount + nodeLen > targetStart)
markStart(w, k, nodeLen, targetStart) ==
  IF w.startNode = 0 /\ w.charCount + nodeLen > targetStart
    THEN [w EXCEPT !.startNode = k,
                   !.startOffset = Min(targetStart - w.charCount, nodeLen)]
    ELSE w

RECURSIVE walkLeaves(_, _, _, _, _)

\* if (charCount + nodeLen >= targetEnd) { ...; break } charCount += nodeLen
markEnd(ls, k, targetStart, targetEnd, w, nodeLen) ==
  IF w.charCount + nodeLen >= targetEnd
    THEN [w EXCEPT !.endNode = k,
                   !.endOffset = Min(targetEnd - w.charCount, nodeLen)]
    ELSE walkLeaves(ls, k + 1, targetStart, targetEnd,
                    [w EXCEPT !.charCount = w.charCount + nodeLen])

\* the TreeWalker loop from leaf k on
walkLeaves(ls, k, targetStart, targetEnd, w) ==
  IF k > Len(ls) THEN w
  ELSE markEnd(ls, k, targetStart, targetEnd,
               markStart([w EXCEPT !.lastNode = k,
                                   !.lastNodeEnd = w.charCount + Len(ls[k])],
                         k, Len(ls[k]), targetStart),
               Len(ls[k]))

\* if (endOffset < 0) endOffset = lastNode.textContent.length
lastNodeOffset(offset, lastLen) == IF offset < 0 THEN lastLen ELSE offset

\* if (startNode && !endNode && lastNode): the range ends in the last leaf
endInLastNode(ls, w, targetEnd) ==
  IF w.startNode # 0 /\ w.endNode = 0 /\ w.lastNode # 0
    THEN [w EXCEPT !.endNode = w.lastNode,
                   !.endOffset =
                      lastNodeOffset(
                        Min(targetEnd - (w.lastNodeEnd - Len(ls[w.lastNode])),
                            Len(ls[w.lastNode])),
                        Len(ls[w.lastNode]))]
    ELSE w

\* Verify range matches expected quote length, adjust if too long
shrinkToQuote(ls, r, quoteLen) ==
  IF Len(RangeText(ls, r)) > quoteLen /\ r.endOffset > 0
    THEN [r EXCEPT !.endOffset = Max(0, r.endOffset - (Len(RangeText(ls, r)) - quoteLen))]
    ELSE r

\* if (startNode === endNode && startOffset >= endOffset)
nonEmptySpan(ls, r) ==
  IF r.startNode = r.endNode /\ r.startOffset >= r.endOffset
    THEN [r EXCEPT !.endOffset = Min(r.startOffset + SameNodeSpan, Len(ls[r.startNode]))]
    ELSE r

\* the offsets clamped to their nodes
clampOffsets(ls, w) ==
  DomRange(w.startNode, Max(0, Min(w.startOffset, Len(ls[w.startNode]))),
           w.endNode, Max(0, Min(w.endOffset, Len(ls[w.endNode]))))

rangeOfWalk(ls, w, quoteLen) ==
  IF w.startNode = 0 \/ w.endNode = 0 THEN Null
  ELSE shrinkToQuote(ls, nonEmptySpan(ls, clampOffsets(ls, w)), quoteLen)

\* For low-confidence matches, adjust length
highlightLength(quoteLen, confidence) ==
  IF RatLess(confidence, Rat(5, 10))
    THEN Min(Max(quoteLen, MinHighlight), MaxHighlight)
    ELSE quoteLen

rangeBetween(ls, targetStart, targetEnd, quoteLen) ==
  rangeOfWalk(ls, endInLastNode(ls, walkLeaves(ls, 1, targetStart, targetEnd, WalkStart),
                                targetEnd),
              quoteLen)

\* the range built from a resolution result (all of createRangeForAnchor
\* after the call of reanchor)
rangeForResult(a, ls, res) ==
  IF ~res.success THEN Null
  ELSE rangeBetween(ls, res.position,
                    Min(res.position + highlightLength(Len(a.quoteExact), res.confidence),
                        Len(getTextContent(ls))),
                    Len(a.quoteExact))

\* Create a DOM range for highlighting an anchor
createRangeForAnchor(a, ls) == rangeForResult(a, ls, reanchor(a, getTextContent(ls)))

(***************************************************************************)
(* The inputs: messages and stored anchors.                                *)
(***************************************************************************)
MaxLen == 3        \* longest enumerated message text
MaxQuoteLen == 2   \* longest enumerated stored quote
MaxHint == 2       \* largest enumerated startHint

Alphabet == {"a", "b", " "}

Seqs(S, lo, hi) == UNION {[1..k -> S] : k \in lo..hi}

Pad(c, n) == [i \in 1..n |-> c]

\* a text as one leaf, or cut in two leaves at k
OneLeaf(t) == IF t = <<>> THEN <<>> ELSE <<t>>
TwoLeaves(t, k) == <<SubSeq(t, 1, k), SubSeq(t, k + 1, Len(t))>>

SmallDocuments ==
  UNION {{OneLeaf(t)} \cup {TwoLeaves(t, k) : k \in 1..(Len(t) - 1)} :
         t \in Seqs(Alphabet, 0, MaxLen)}

CatText == <<"T","h","e"," ","c","a","t"," ","s","a","t","."," ","T","h","e"," ","c","a","t"," ","r","a","n",".">>
CatQuote == <<"c","a","t">>
CatContext == <<"T","h","e"," ","c","a","t"," ","r","a","n",".">>

\* a quote longer than the shortest prefix fuzzyFind tries
LongQuote == <<"a","b","c","d","e","f","g","h","i","j","k","l","m","n","o","p","q","r","s","t","u","v","w","x","y">>
\* the quote with its tail edited away
EditedLong == SubSeq(LongQuote, 1, 22) \o <<"Z","Z","Z">>

HelloText == <<"H","e","l","l","o"," ","w","o","r","l","d">>
DotHelloText == <<"x","."," ","H","e","l","l","o">>
HyphenQuote == <<"H","e","-","l","l","o">>

ScenarioTexts ==
  { CatText,
    EditedLong,
    Pad("-", 205) \o EditedLong,
    Pad("-", 205) \o EditedLong \o Pad("-", 230),
    HelloText,
    DotHelloText }

\* a word of more than MaxHighlight characters, twice
LongWord == Pad("w", 101)
TwiceLongText == LongWord \o <<" ">> \o LongWord

\* "hello hello" in three leaves
TwiceHelloLeaves == <<<<"h","e","l","l","o">>, <<" ","h">>, <<"e","l","l","o">>>>

ScenarioDocuments ==
  {OneLeaf(t) : t \in ScenarioTexts}
    \cup {TwoLeaves(CatText, 5), OneLeaf(TwiceLongText), TwoLeaves(TwiceLongText, 50),
          TwiceHelloLeaves, OneLeaf(Concat(TwiceHelloLeaves))}

\* the offsets at which a selection may start or end
ShortOffsets == {4, 5, 6, 7, 11, 12, 13, 17, 20, 25}
LongOffsets == {0, 101, 102, 203}

Selections(ls) ==
  LET n == Len(Concat(ls))
      offsets == IF n > MaxHighlight THEN {k \in LongOffsets : k <= n}
                 ELSE {k \in (0..MaxLen) \cup ShortOffsets : k <= n}
  IN  {sel \in {Selection(s, e) : s \in offsets, e \in offsets} : sel.start <= sel.end}

Documents == SmallDocuments \cup ScenarioDocuments

\* anchors in storage: created on an earlier rendering, or by an earlier
\* version that filled the legacy prefix and suffix
LegacyContexts ==
  { [prefix |-> <<>>, suffix |-> <<>>],
    [prefix |-> <<"a">>, suffix |-> <<"b">>],
    [prefix |-> <<"b", "a">>, suffix |-> <<>>] }

SmallAnchors(fp) ==
  {Anchor(fp, q, <<>>, c.prefix, c.suffix, h) :
     q \in Seqs({"a", "b"}, 1, MaxQuoteLen),
     c \in LegacyContexts,
     h \in {0, MaxHint}}

ScenarioAnchors(fp) ==
  { Anchor(fp, CatQuote, CatContext, <<>>, <<>>, 17),
    Anchor(fp, CatQuote, CatContext, <<>>, <<>>, 4),
    Anchor(fp, LongQuote, <<>>, <<>>, <<>>, 0),
    Anchor(fp, LongQuote, <<>>, <<>>, <<>>, 205),
    Anchor(fp, LongQuote, <<>>, <<>>, <<>>, 400),
    Anchor(fp, LongQuote, <<>>, <<>>, <<>>, 700),
    Anchor(fp, HyphenQuote, <<>>, <<>>, <<>>, 0),
    Anchor(fp, HyphenQuote, <<>>, <<>>, <<>>, 3) }

\* the anchors of the comments stored for a message
\* (renderHighlights pairs a comment with the message whose fingerprint its
\* anchor holds)
StoredAnchors(ls) ==
  UNION {IF Len(Concat(ls)) <= MaxLen THEN SmallAnchors(fp) ELSE ScenarioAnchors(fp) :
           fp \in {fingerprint(Concat(ls))}}

(***************************************************************************)
(* The state machine: one action per operation of JAL.Anchoring.           *)
(***************************************************************************)
messageText == getTextContent(leaves)

Init ==
  /\ leaves \in Documents
  /\ selection = NoSelection
  /\ anchor = NoAnchor
  /\ op = "init"
  /\ ret = Null
  /\ args = Null
  /\ dataJalMessage = Null
  /\ comments = <<>>
  /\ storage = <<>>
  /\ highlights = <<>>
  /\ pendingHighlights = Null
  /\ retry = Null
  /\ TrackingIdle

\* a comment's anchor is read from storage (loadComments)
LoadAnchor ==
  /\ anchor = NoAnchor
  /\ \E a \in StoredAnchors(leaves) : anchor' = a
  /\ selection' = NoSelection
  /\ op' = "load"
  /\ ret' = Null
  /\ UNCHANGED <<leaves, args, page, tracking>>

\* the user selects text of the message and an anchor is made of it
CreateAnchor ==
  /\ anchor = NoAnchor
  /\ \E sel \in Selections(leaves) \cup {NoSelection} :
       /\ selection' = sel
       /\ ret' = createAnchor(sel, leaves, messageText)
       /\ anchor' = IF ret' = Null THEN NoAnchor ELSE ret'
  /\ op' = "createAnchor"
  /\ UNCHANGED <<leaves, args, page, tracking>>

\* the assistant's message grows while it streams: a character is added to
\* the last text node (the first one is created); the selection is gone by
\* then
Stream ==
  /\ Len(messageText) < MaxLen
  /\ \E c \in Alphabet :
       leaves' = IF leaves = <<>>
                   THEN <<<<c>>>>
                   ELSE [leaves EXCEPT ![Len(leaves)] = Append(@, c)]
  /\ selection' = NoSelection
  /\ op' = "stream"
  /\ ret' = Null
  /\ UNCHANGED <<anchor, args, page, tracking>>

Reanchor ==
  /\ anchor # NoAnchor
  /\ op' = "reanchor"
  /\ ret' = reanchor(anchor, messageText)
  /\ UNCHANGED <<leaves, selection, anchor, args, page, tracking>>

FuzzyFind ==
  /\ anchor # NoAnchor
  /\ op' = "fuzzyFind"
  /\ ret' = fuzzyFind(messageText, anchor.quoteExact, anchor.startHint)
  /\ UNCHANGED <<leaves, selection, anchor, args, page, tracking>>

\* renderHighlights materialises the anchor in the message element
CreateRangeForAnchor ==
  /\ anchor # NoAnchor
  /\ op' = "createRange"
  /\ ret' = createRangeForAnchor(anchor, leaves)
  /\ UNCHANGED <<leaves, selection, anchor, args, page, tracking>>

Next ==
  \/ LoadAnchor
  \/ CreateAnchor
  \/ Stream
  \/ Reanchor
  \/ FuzzyFind
  \/ CreateRangeForAnchor

Spec == Init /\ [][Next]_vars

(***************************************************************************)
(* Properties of resolve (reanchor).                                       *)
(***************************************************************************)
\* the positions at which q occurs in t, overlapping occurrences included
Occurrences(t, q) == {i \in 0..(Len(t) - Len(q)) : MatchesAt(t, q, i)}

Resolved == op = "reanchor"

\* C1: a quote that occurs exactly once in the text is resolved with
\* success, confidence 1.0 and position T.indexOf(Q), whatever the anchor's
\* startHint, prefix and suffix are.
C1_UniqueExactMatch ==
  (Resolved /\ Cardinality(Occurrences(messageText, anchor.quoteExact)) = 1)
    => /\ ret.success = TRUE
       /\ RatEq(ret.confidence, Rat(1, 1))
       /\ ret.position = IndexOf(messageText, anchor.quoteExact)

\* a unique occurrence away from startHint, with legacy context that is absent
C1_Witness ==
  /\ Resolved
  /\ Cardinality(Occurrences(messageText, anchor.quoteExact)) = 1
  /\ anchor.startHint # IndexOf(messageText, anchor.quoteExact)
  /\ anchor.prefix # <<>>
  /\ ~Includes(messageText, anchor.prefix)
  /\ IndexOf(messageText, anchor.quoteExact) = 0

\* does the occurrence of the quote at p lie inside an occurrence of ctx
InsideContext(t, q, ctx, p) ==
  \E c \in Occurrences(t, ctx) : c <= p /\ p + Len(q) <= c + Len(ctx)

\* C2: with several occurrences of the quote, resolve returns the one whose
\* surroundings match the stored context: for an anchor as createAnchor writes
\* it (contextSentences set, prefix and suffix empty) and exactly one
\* occurrence inside the stored sentence, that occurrence is returned (the
\* second "cat" of "The cat sat. The cat ran.", not the one at 4).
C2_ContextSelectsOccurrence ==
  \A p \in Occurrences(messageText, IF anchor = NoAnchor THEN <<>> ELSE anchor.quoteExact) :
    ( /\ Resolved
      /\ anchor.prefix = <<>> /\ anchor.suffix = <<>>
      /\ anchor.contextSentences # <<>>
      /\ Cardinality(Occurrences(messageText, anchor.quoteExact)) >= 2
      /\ InsideContext(messageText, anchor.quoteExact, anchor.contextSentences, p)
      /\ \A r \in Occurrences(messageText, anchor.quoteExact) :
           r # p => ~InsideContext(messageText, anchor.quoteExact,
                                   anchor.contextSentences, r) )
    => ret.position = p

\* C3: among several exact matches the disambiguator returns a candidate of
\* maximal context score, the first such in document order, and that score.
C3_MaxScoreFirstWins ==
  (Resolved /\ Cardinality(Occurrences(messageText, anchor.quoteExact)) >= 2)
    => LET cands == Occurrences(messageText, anchor.quoteExact)
           Score(p) == contextScore(messageText, p, anchor.prefix, anchor.suffix,
                                    Len(anchor.quoteExact))
       IN  /\ ret.position \in cands
           /\ RatEq(ret.confidence, Score(ret.position))
           /\ \A p \in cands : RatLeq(Score(p), Score(ret.position))
           /\ \A p \in cands :
                RatEq(Score(p), Score(ret.position)) => ret.position <= p

\* a later candidate wins over the first, and ties with a candidate after it
C3_Witness ==
  /\ Resolved
  /\ Cardinality(Occurrences(messageText, anchor.quoteExact)) >= 3
  /\ LET cands == Occurrences(messageText, anchor.quoteExact)
         Score(p) == contextScore(messageText, p, anchor.prefix, anchor.suffix,
                                  Len(anchor.quoteExact))
     IN  /\ \E p \in cands : p < ret.position /\ RatLess(Score(p), Score(ret.position))
         /\ \E p \in cands : p > ret.position /\ RatEq(Score(p), Score(ret.position))

\* C4: resolve always returns a result with success = true and an integer
\* position >= 0, also for the empty text and when every tier fails.
C4_AlwaysResolves ==
  Resolved => /\ ret # Null
              /\ ret.success = TRUE
              /\ ret.position \in Nat

\* every tier fails: legacy context is stored but neither part is in the text
C4_Witness ==
  /\ Resolved
  /\ anchor.prefix # <<>> /\ anchor.suffix # <<>>
  /\ RatEq(ret.confidence, ConfFallback)
  /\ ret.position = anchor.startHint
  /\ ret.position > Len(messageText)

C4_WitnessEmptyText == Resolved /\ messageText = <<>> /\ ret.position > 0

\* a leading fragment of the quote, at least MinFuzzyPrefix long and shorter
\* than the quote, lies in the window around startHint
FragmentInWindow(t, q, h) ==
  \E len \in MinFuzzyPrefix..(Len(q) - 1) :
    \E i \in Max(0, h - windowSize)..Len(t) :
      /\ i + len <= Min(Len(t), h + Len(q) + windowSize)
      /\ MatchesAt(t, SubSeq(q, 1, len), i)

\* C5 as stated: a quote absent from the text is resolved with confidence <= 0.5
C5_AbsentAtMostHalf ==
  (Resolved /\ Occurrences(messageText, anchor.quoteExact) = {})
    => RatLeq(ret.confidence, Rat(5, 10))

\* C5 amended: a quote absent from the text is resolved with confidence <= 0.5
\* unless a leading fragment of at least 20 of its characters lies in the
\* window around startHint, and then the confidence is 0.7.
C5_AbsentAtMostHalfUnlessFragment ==
  (Resolved /\ Occurrences(messageText, anchor.quoteExact) = {})
    => IF FragmentInWindow(messageText, anchor.quoteExact, anchor.startHint)
         THEN RatEq(ret.confidence, Rat(7, 10))
         ELSE RatLeq(ret.confidence, Rat(5, 10))

\* the fragment is in the text, but outside the window
C5_Witness ==
  /\ Resolved
  /\ Occurrences(messageText, anchor.quoteExact) = {}
  /\ Len(anchor.quoteExact) > MinFuzzyPrefix
  /\ Includes(messageText, SubSeq(anchor.quoteExact, 1, MinFuzzyPrefix))
  /\ ~FragmentInWindow(messageText, anchor.quoteExact, anchor.startHint)
  /\ RatLeq(ret.confidence, Rat(5, 10))

\* C6: every result of resolve has 0 <= confidence <= 1.
C6_ConfidenceInUnitInterval ==
  Resolved => /\ RatLeq(Rat(0, 1), ret.confidence)
              /\ RatLeq(ret.confidence, Rat(1, 1))

\* the normalized tier's search: the normalized quote, long enough to be
\* searched for, occurs in the normalized text
NormalizedSearchSucceeds(t, q) ==
  /\ Len(normalizeForSearch(q)) >= MinNormalizedLen
  /\ Includes(normalizeForSearch(t), normalizeForSearch(q))

\* C7: resolve returns the result of the first tier whose search succeeds,
\* with that tier's confidence: 1.0, the disambiguation score, 0.7, 0.5, 0.4,
\* and 0.2 at startHint only when every search failed.
C7_FirstTierWins ==
  Resolved =>
    LET t == messageText
        q == anchor.quoteExact
        occ == Occurrences(t, q)
        fz == fuzzyFind(t, q, anchor.startHint)
        cx == findByContext(t, anchor.prefix, anchor.suffix)
    IN  IF Cardinality(occ) = 1
          THEN RatEq(ret.confidence, Rat(1, 1)) /\ ret.position \in occ
        ELSE IF Cardinality(occ) > 1
          THEN /\ ret.position \in occ
               /\ RatEq(ret.confidence,
                        contextScore(t, ret.position, anchor.prefix, anchor.suffix, Len(q)))
        ELSE IF fz # -1
          THEN RatEq(ret.confidence, Rat(7, 10)) /\ ret.position = fz
        ELSE IF cx # -1
          THEN RatEq(ret.confidence, Rat(5, 10)) /\ ret.position = cx
        ELSE IF NormalizedSearchSucceeds(t, q)
          THEN RatEq(ret.confidence, Rat(4, 10))
        ELSE RatEq(ret.confidence, Rat(2, 10)) /\ ret.position = anchor.startHint

RoundTrip ==
  /\ op = "createRange"
  /\ selection # NoSelection
  /\ anchor = createAnchor(selection, leaves, messageText)

\* C9: round trip.  When the text is unchanged between creation and
\* resolution and the selection covers a substring Q of at least 5
\* characters, createAnchor, reanchor and createRangeForAnchor return a
\* span whose leaf text is Q exactly, also when Q occurs more than once and
\* when Q is longer than 100 characters.
C9_RoundTrip ==
  (/\ RoundTrip
   /\ Len(SelectionText(selection, leaves)) >= 5
   /\ anchor.quoteExact = SelectionText(selection, leaves))
    => /\ ret # Null
       /\ RangeText(leaves, ret) = SelectionText(selection, leaves)

\* C10: when reanchor returns a confidence below 0.5 and enough text
\* follows the resolved position, the span that createRangeForAnchor returns
\* covers at least 10 and at most 100 characters.
C10_LowConfidenceSpanClamped ==
  (/\ op = "createRange"
   /\ reanchor(anchor, messageText).success
   /\ RatLess(reanchor(anchor, messageText).confidence, Rat(5, 10))
   /\ Len(messageText) - reanchor(anchor, messageText).position
        >= Min(Max(Len(anchor.quoteExact), MinHighlight), MaxHighlight))
    => /\ ret # Null
       /\ MinHighlight <= Len(RangeText(leaves, ret))
       /\ Len(RangeText(leaves, ret)) <= MaxHighlight

\* the resolution that createRangeForAnchor materialises
Resolved0 == reanchor(anchor, messageText)

\* C11: createRangeForAnchor returns null exactly when no leaf covers the
\* resolved position (the position is at or beyond the end of the leaf
\* text, or there is no leaf); otherwise it returns a range whose offsets
\* lie within their leaves, whose end leaf is not before its start leaf, and
\* whose end is the end of the last leaf when position + length exceeds it.
C11_NullIffUncovered ==
  op = "createRange" =>
    /\ ret = Null <=> Resolved0.position >= Len(messageText)
    /\ ret # Null =>
         /\ ret.startNode \in 1..Len(leaves)
         /\ ret.endNode \in 1..Len(leaves)
         /\ 0 <= ret.startOffset /\ ret.startOffset <= Len(leaves[ret.startNode])
         /\ 0 <= ret.endOffset /\ ret.endOffset <= Len(leaves[ret.endNode])
         /\ ret.startNode <= ret.endNode
         /\ Resolved0.position
              + highlightLength(Len(anchor.quoteExact), Resolved0.confidence)
              > Len(messageText)
            => /\ ret.endNode = Len(leaves)
               /\ ret.endOffset = Len(leaves[Len(leaves)])

\* C24: when the exact, fuzzy and legacy-context searches fail and the
\* normalized quote, of 5 characters or more, occurs in the normalized text,
\* resolve returns confidence 0.4 and a position from which the normalized
\* text starts with the normalized quote
C24_NormalizedTierPosition ==
  (/\ Resolved
   /\ Occurrences(messageText, anchor.quoteExact) = {}
   /\ fuzzyFind(messageText, anchor.quoteExact, anchor.startHint) = -1
   /\ findByContext(messageText, anchor.prefix, anchor.suffix) = -1
   /\ NormalizedSearchSucceeds(messageText, anchor.quoteExact))
    => /\ RatEq(ret.confidence, ConfNormalized)
       /\ ret.position \in 0..Len(messageText)
       /\ IndexOf(normalizeForSearch(Slice(messageText, ret.position, Len(messageText))),
                  normalizeForSearch(anchor.quoteExact)) = 0

\* C28: when the text has not changed since the anchor was created and the
\* quote is the text the user selected at offset p, the anchor's startHint is
\* p and resolve returns p, also when the quote occurs earlier in the text
C28_SelectedOccurrenceResolved ==
  [][(/\ op = "createAnchor" /\ ret # Null
      /\ SelectionText(selection, leaves) = anchor.quoteExact
      /\ op' = "reanchor")
       => (/\ anchor.startHint = selection.start
           /\ ret'.position = selection.start)]_vars

\* C21: the text of every range createRangeForAnchor returns is at most
\* as long as the anchor's quote, whatever the confidence and the leaves
C21_SpanNoLongerThanQuote ==
  (op = "createRange" /\ ret # Null)
    => Len(RangeText(leaves, ret)) <= Len(anchor.quoteExact)

\* the selection is absent, collapsed, or blank
EmptySelection(sel, ls) ==
  \/ sel = NoSelection
  \/ isCollapsed(sel)
  \/ Trim(SelectionText(sel, ls)) = <<>>

Called(a) ==
  /\ args = a
  /\ leaves = <<>>
  /\ selection = NoSelection
  /\ anchor = NoAnchor
  /\ op = "init"
  /\ ret = Null
  /\ dataJalMessage = Null
  /\ comments = <<>>
  /\ storage = <<>>
  /\ highlights = <<>>
  /\ pendingHighlights = Null
  /\ retry = Null
  /\ TrackingIdle

\* the function fn is applied to the arguments drawn
Calling(fn) ==
  /\ op = "init"
  /\ args.fn = fn
  /\ op' = fn
  /\ UNCHANGED <<leaves, selection, anchor, args, page, tracking>>

MaxExpandLen == 4
ExpandAlphabet == {"a", " ", "<U+4E2D>"}

Zhong == "<U+4E2D>"
Wen == "<U+6587>"
\* an ideographic selection of which the message holds only the first five
\* characters, at its end
IdeographicText == <<Zhong, Wen, Zhong, Wen, Zhong, Wen>>
TruncatedMessage == <<"a", " ", Zhong, Wen, Zhong, Wen, Zhong>>

ExpandCalls ==
  {[fn |-> "expandToFullWords", text |-> t, messageText |-> m] :
     t \in Seqs(ExpandAlphabet, 0, MaxExpandLen),
     m \in Seqs(ExpandAlphabet, 0, MaxExpandLen)}
  \cup {[fn |-> "expandToFullWords", text |-> IdeographicText,
         messageText |-> TruncatedMessage]}

ExpandToFullWords ==
  /\ Calling("expandToFullWords")
  /\ ret' = expandToFullWords(args.text, args.messageText)

\* every character of s is an ideograph
IsIdeographic(s) == \A i \in 1..Len(s) : s[i] \in CJKIdeographs

\* C12: expandToFullWords returns a string at least as long as the trimmed
\* input, and for an input of ideographs only a string of exactly the
\* input's length.
C12_ExpansionNeverShrinks ==
  op = "expandToFullWords" =>
    /\ Len(ret) >= Len(Trim(args.text))
    /\ IsIdeographic(args.text) => Len(ret) = Len(args.text)

(***************************************************************************)
(* highlightRange: the rectangles of a range merged into one per line.     *)
(* A rectangle is [left, right, top, bottom]; coordinates are integers.    *)
(***************************************************************************)
Rect(l, r, t, b) == [left |-> l, right |-> r, top |-> t, bottom |-> b]

Abs(x) == IF x < 0 THEN -x ELSE x

\* centerDistance < smallerHeight / 2, both sides doubled
sameLine(a, b) ==
  Abs((a.top + a.bottom) - (b.top + b.bottom))
    < Min(a.bottom - a.top, b.bottom - b.top)

\* Merge into bounding box: leftmost, rightmost, topmost, bottommost
boundingBox(a, b) ==
  Rect(Min(a.left, b.left), Max(a.right, b.right),
       Min(a.top, b.top), Max(a.bottom, b.bottom))

\* the pairs i < j of lines on the same line
SameLinePairs(lines) ==
  {p \in (1..Len(lines)) \X (1..Len(lines)) :
     p[1] < p[2] /\ sameLine(lines[p[1]], lines[p[2]])}

\* the pair the two nested loops reach first
FirstPair(pairs) ==
  CHOOSE p \in pairs :
    \A q \in pairs : p[1] < q[1] \/ (p[1] = q[1] /\ p[2] <= q[2])

\* lines.splice(i, 1)
Splice(lines, i) == SubSeq(lines, 1, i - 1) \o SubSeq(lines, i + 1, Len(lines))

\* Remove both, add merged
mergePair(lines, p) ==
  Append(Splice(Splice(lines, p[2]), p[1]), boundingBox(lines[p[1]], lines[p[2]]))

\* one scan only: the first pair found is merged and the scan is not restarted
mergeRectanglesOnce(lines) ==
  IF SameLinePairs(lines) = {} THEN lines
  ELSE mergePair(lines, FirstPair(SameLinePairs(lines)))

\* a scan that compares each rectangle with the next one only
RECURSIVE mergeRectanglesAdjacent(_)
mergeRectanglesAdjacent(lines) ==
  IF {p \in SameLinePairs(lines) : p[2] = p[1] + 1} = {} THEN lines
  ELSE mergeRectanglesAdjacent(
         mergePair(lines, FirstPair({p \in SameLinePairs(lines) : p[2] = p[1] + 1})))

RECURSIVE mergeRectangles(_)
\* while (changed): scan the pairs, merge the first on the same line, restart
mergeRectangles(lines) ==
  IF SameLinePairs(lines) = {} THEN lines
  ELSE mergeRectangles(mergePair(lines, FirstPair(SameLinePairs(lines))))

MaxRects == 3
MaxTop == 2
\* rectangles of positive width and height
Rects ==
  {Rect(l, l + 1, t, t + h) : l \in {0, 1}, t \in 0..MaxTop, h \in {1, 3}}

MergeCalls ==
  {[fn |-> "mergeRectangles", lines |-> ls] : ls \in Seqs(Rects, 0, MaxRects)}

MergeRectangles ==
  /\ Calling("mergeRectangles")
  /\ ret' = mergeRectangles(args.lines)

\* C13: the rectangle merge is idempotent: merging the merged rectangles
\* again returns the same set of rectangles.
C13_MergeIdempotent ==
  op = "mergeRectangles" => Range(mergeRectangles(ret)) = Range(ret)

\* rectangles were merged and more than one line is left
C13_Witness ==
  /\ op = "mergeRectangles"
  /\ Len(ret) < Len(args.lines)
  /\ Len(ret) >= 2

\* C22: the merge loop terminates, returns at most as many rectangles as it
\* was given, returns the empty list for the empty list, and leaves no two
\* rectangles that pass the same-line test
C22_MergeReachesFixedPoint ==
  op = "mergeRectangles" =>
    /\ Len(ret) <= Len(args.lines)
    /\ args.lines = <<>> => ret = <<>>
    /\ SameLinePairs(ret) = {}

\* three rectangles became one, two of them joined only through the third
C22_Witness ==
  /\ op = "mergeRectangles"
  /\ Len(args.lines) = 3
  /\ Len(ret) = 1
  /\ \E i, j \in 1..3 : i # j /\ ~sameLine(args.lines[i], args.lines[j])

\* rectangle o contains rectangle r
Contains(o, r) ==
  /\ o.left <= r.left /\ r.right <= o.right
  /\ o.top <= r.top /\ r.bottom <= o.bottom

\* the indices linked to those of set S by the same-line test
RECURSIVE LinkedTo(_, _)
LinkedTo(lines, S) ==
  IF \E k \in (1..Len(lines)) \ S : \E i \in S : sameLine(lines[i], lines[k])
    THEN LinkedTo(lines, S \cup {k \in 1..Len(lines) :
                                   \E i \in S : sameLine(lines[i], lines[k])})
    ELSE S

\* the orders in which a list can be given
Orderings(lines) ==
  {[i \in 1..Len(lines) |-> lines[f[i]]] :
     f \in {g \in [1..Len(lines) -> 1..Len(lines)] :
              \A i, j \in 1..Len(lines) : g[i] = g[j] => i = j}}

\* C23: the merge gives one rectangle per line: every input rectangle lies in
\* exactly one output rectangle, two input rectangles lie in the same output
\* rectangle only if a chain of same-line input rectangles links them, and
\* the set of output rectangles is the same for every order of the input
C23_OneRectanglePerLine ==
  op = "mergeRectangles" =>
    /\ \A i \in 1..Len(args.lines) :
         Cardinality({o \in Range(ret) : Contains(o, args.lines[i])}) = 1
    /\ \A i, j \in 1..Len(args.lines) :
         (\E o \in Range(ret) : Contains(o, args.lines[i]) /\ Contains(o, args.lines[j]))
           => j \in LinkedTo(args.lines, {i})
    /\ \A other \in Orderings(args.lines) :
         Range(mergeRectangles(other)) = Range(ret)

(***************************************************************************)
(* levenshteinDistance and similarity called on their own.                 *)
(***************************************************************************)
Strings == Seqs({"a", "b"}, 0, MaxLen)

DistanceCalls ==
  {[fn |-> "levenshteinDistance", a |-> a, b |-> b] : a \in Strings, b \in Strings}

SimilarityCalls ==
  {[fn |-> "similarity", a |-> a, b |-> b] : a \in Strings, b \in Strings}

LevenshteinDistance ==
  /\ Calling("levenshteinDistance")
  /\ ret' = levenshteinDistance(args.a, args.b)

Similarity ==
  /\ Calling("similarity")
  /\ ret' = similarity(args.a, args.b)

\* C14: for every string A, the empty string included,
\* levenshteinDistance(A, A) = 0, levenshteinDistance(A, "") = len(A) and
\* similarity(A, A) = 1.
C14_DistanceAndSimilarityOfEqual ==
  /\ (op = "levenshteinDistance" /\ args.a = args.b) => ret = 0
  /\ (op = "levenshteinDistance" /\ args.b = <<>>) => ret = Len(args.a)
  /\ (op = "similarity" /\ args.a = args.b) => RatEq(ret, Rat(1, 1))

(***************************************************************************)
(* JAL.Utils.fingerprint called on its own.                                *)
(***************************************************************************)
\* two long texts that differ in the middle only
LongHeadTailX == Pad("a", 100) \o <<"x">> \o Pad("b", 100)
LongHeadTailY == Pad("a", 100) \o <<"y">> \o Pad("b", 100)

FingerprintTexts ==
  Seqs({"a", " "}, 0, MaxLen) \cup {CatText, LongHeadTailX, LongHeadTailY}

FingerprintCalls ==
  {[fn |-> "fingerprint", text |-> t, other |-> o] :
     t \in FingerprintTexts, o \in FingerprintTexts}

Fingerprint ==
  /\ Calling("fingerprint")
  /\ ret' = fingerprint(args.text)

\* h = h * 31 + charCode, wrapped to 32 bits
mulAdd31(h, char) ==
  Word32((h.hi * 31 + (h.lo * 31 + char) \div Half) % Half, (h.lo * 31 + char) % Half)

RECURSIVE polyHash(_, _, _, _)
\* the polynomial rolling hash of sample[from..to] continued from hash
polyHash(sample, from, to, hash) ==
  IF from > to THEN hash
  ELSE IF from = to THEN mulAdd31(hash, CharCode(sample[from]))
  ELSE CHOOSE r \in {polyHash(sample, (from + to) \div 2 + 1, to, h) :
                      h \in {polyHash(sample, from, (from + to) \div 2, hash)}} : TRUE

\* the normalized forms of s and t have equal head, tail and length
SameSample(s, t) ==
  /\ Len(normalizedOf(s)) = Len(normalizedOf(t))
  /\ Slice(normalizedOf(s), 0, 100) = Slice(normalizedOf(t), 0, 100)
  /\ Slice(normalizedOf(s), -100, Len(normalizedOf(s)))
       = Slice(normalizedOf(t), -100, Len(normalizedOf(t)))

\* C19: fingerprint returns the empty string for empty input; for non-empty
\* input it returns, in base 36, abs(h) for the hash h = h * 31 + charCode
\* wrapped to signed 32 bits over "first 100 | last 100 | length" of the
\* whitespace-normalized trimmed text; so texts whose normalized forms have
\* equal head, tail and length get equal fingerprints.
C19_FingerprintIsWrappedPolynomialHash ==
  op = "fingerprint" =>
    /\ args.text = <<>> => ret = <<>>
    /\ args.text # <<>> =>
         ret = toString36(absWord(
                 polyHash(sampleOf(normalizedOf(args.text)), 1,
                          Len(sampleOf(normalizedOf(args.text))), Word32(0, 0))))
    /\ (args.text # <<>> /\ args.other # <<>> /\ SameSample(args.text, args.other))
         => ret = fingerprint(args.other)

\* two texts with different normalized forms and the same fingerprint; the
\* hash has wrapped to a negative number
C19_Witness ==
  /\ op = "fingerprint"
  /\ normalizedOf(args.text) # normalizedOf(args.other)
  /\ SameSample(args.text, args.other)
  /\ ret = fingerprint(args.other)
  /\ hashOf(sampleOf(normalizedOf(args.text))).hi >= 32768

(***************************************************************************)
(* extractSentenceContext called on its own                               *)
(***************************************************************************)

MaxContextLen == 3

ContextAlphabet == {"a", ".", " ", "\n", "<U+3002>"}

\* a number inside a sentence: "x 3.5 y. z"
VersionText == <<"x"," ","3",".","5"," ","y","."," ","z">>

\* the quotes tried at position p of text t: what the text holds there, and
\* quotes the text does not hold there
ContextQuotes(t, p) ==
  {Slice(t, Max(p, 0), Min(Max(p, 0) + n, Len(t))) : n \in 0..2} \cup {<<"a">>, <<"a", "a">>}

\* the calls on texts of at most n characters, and on the text with a number
ContextCalls(n) ==
  UNION {{[fn |-> "extractSentenceContext", messageText |-> c[1], quote |-> q,
           startHint |-> c[2]] : q \in ContextQuotes(c[1], c[2])} :
           c \in {d \in Seqs(ContextAlphabet, 0, n) \X (-1..(n + 1)) :
                    d[2] <= Len(d[1])}}
  \cup {[fn |-> "extractSentenceContext", messageText |-> VersionText,
         quote |-> <<"x">>, startHint |-> 0]}

ExtractSentenceContext ==
  /\ Calling("extractSentenceContext")
  /\ ret' = extractSentenceContext(args.messageText, args.quote, args.startHint)

\* the position the forward scan starts at
quoteEnd(msgText, quote, startHint) ==
  Min(Min(startHint, Len(msgText) - 1) + Len(quote), Len(msgText))

\* the call has a position inside the text
InsideText == args.startHint >= 0 /\ args.startHint < Len(args.messageText)

\* C17: the forward scan of extractSentenceContext uses the rules of the
\* backward scan: a Latin terminator (. ! ?) at or after the end of the quote
\* that is followed by a character other than whitespace does not end the
\* context, so the context never ends right after such a terminator
C17_ForwardScanSameRules ==
  (op = "extractSentenceContext" /\ InsideText) =>
    \A i \in quoteEnd(args.messageText, args.quote, args.startHint)
               ..(Len(args.messageText) - 2) :
      (/\ CharAt(args.messageText, i) \in {".", "!", "?"}
       /\ ~IsSpace(CharAt(args.messageText, i + 1)))
        => sentenceEnd(args.messageText,
                       quoteEnd(args.messageText, args.quote, args.startHint)) # i + 1

\* the text holds the quote at the position
QuoteAtPosition ==
  Slice(args.messageText, args.startHint, args.startHint + Len(args.quote)) = args.quote

\* C18: extractSentenceContext returns the empty string when the position is
\* outside the text; otherwise it returns trim(T[s..e)) with s <= p and
\* e >= min(p + len(quote), len(T)), and when the text holds the quote at p
\* the context contains the trimmed quote and has no newline unless the quote
\* has one
C18_ContextEnclosesQuote ==
  op = "extractSentenceContext" =>
    /\ ~InsideText => ret = <<>>
    /\ InsideText =>
         /\ \E s \in 0..args.startHint :
              \E e \in quoteEnd(args.messageText, args.quote, args.startHint)
                         ..Len(args.messageText) :
                ret = Trim(Slice(args.messageText, s, e))
         /\ QuoteAtPosition =>
              /\ Includes(ret, Trim(args.quote))
              /\ ("\n" \in Range(ret)) => ("\n" \in Range(args.quote))

\* a quote found at its position after a sentence boundary: the context
\* starts inside the text and is longer than the quote
C18_Witness ==
  /\ op = "extractSentenceContext"
  /\ InsideText
  /\ QuoteAtPosition
  /\ args.quote # <<>>
  /\ sentenceStart(args.messageText, args.startHint) > 0
  /\ Len(ret) > Len(args.quote)

FunctionInit ==
  \/ \E a \in ExpandCalls : Called(a)
  \/ \E a \in MergeCalls : Called(a)
  \/ \E a \in DistanceCalls : Called(a)
  \/ \E a \in SimilarityCalls : Called(a)
  \/ \E a \in FingerprintCalls : Called(a)
  \/ \E a \in ContextCalls(MaxContextLen) : Called(a)

FunctionNext ==
  \/ ExpandToFullWords
  \/ MergeRectangles
  \/ LevenshteinDistance
  \/ Similarity
  \/ Fingerprint
  \/ ExtractSentenceContext

FunctionSpec == FunctionInit /\ [][FunctionNext]_vars

(***************************************************************************)
(* The content script around one assistant message: the message is marked  *)
(* with its fingerprint, the comments are loaded from storage, the user    *)
(* comments on a selection, and every pass of renderHighlights draws the   *)
(* highlights again from the comments.                                     *)
(***************************************************************************)
MaxPageLen == 1    \* longest message text
MaxComments == 1   \* most comments stored for the page

PageAlphabet == {"a", "b"}

\* the message is not in the document yet
NoElement == [absent |-> TRUE]

\* the data-jal-message attribute holding a fingerprint
Marked(fp) == [value |-> fp]

\* Mark a message element for JAL tracking
markMessage(attr, text) == IF attr = Null THEN Marked(fingerprint(text)) ELSE attr

\* Mark all existing messages with fingerprints
markAllMessages(attr, text) == IF attr = NoElement THEN attr ELSE markMessage(attr, text)

\* a comment that stores its anchor without the sentence context
createCommentBare(id, a) ==
  [commentId |-> id, anchor |-> [a EXCEPT !.contextSentences = <<>>], status |-> "draft"]

\* Create a new comment object
createComment(id, a) == [commentId |-> id, anchor |-> a, status |-> "draft"]

\* generateId: an id no stored comment has
generateId(stored) == Len(stored) + 1

\* the message whose data-jal-message is the fingerprint of the comment's anchor
targetMessage(comment, attr) == attr = Marked(comment.anchor.messageFingerprint)

\* the range of a comment in a pass, or Null: no message matches, or
\* createRangeForAnchor returns null
materialize(comment, attr, ls) ==
  IF targetMessage(comment, attr) THEN createRangeForAnchor(comment.anchor, ls) ELSE Null

\* JAL.state.ui.highlights.set(commentId, highlights)
Highlight(id, range) == [commentId |-> id, range |-> range]

setHighlight(hs, id, range) ==
  IF \E i \in 1..Len(hs) : hs[i].commentId = id
    THEN [i \in 1..Len(hs) |-> IF hs[i].commentId = id THEN Highlight(id, range) ELSE hs[i]]
    ELSE Append(hs, Highlight(id, range))

\* for (const comment of JAL.state.comments): the highlight map after the
\* comments from the i-th on are drawn on hs
RECURSIVE renderLoop(_, _, _, _, _)
renderLoop(cs, i, attr, ls, hs) ==
  IF i > Len(cs) THEN hs
  ELSE IF materialize(cs[i], attr, ls) = Null THEN renderLoop(cs, i + 1, attr, ls, hs)
  ELSE renderLoop(cs, i + 1, attr, ls,
                  setHighlight(hs, cs[i].commentId, materialize(cs[i], attr, ls)))

\* a pass that does not clear the highlight map before it draws
renderHighlightsNoClear(hs, cs, attr, ls) == renderLoop(cs, 1, attr, ls, hs)

\* Render highlights for all comments: the highlight map hs is cleared and
\* filled again; attr is the attribute of the message once it is marked
renderHighlights(hs, cs, attr, ls) == renderLoop(cs, 1, attr, ls, <<>>)

maxAttempts == 5

\* retryRenderHighlights(attempt, maxAttempts, delay): a pass is scheduled
\* while highlights are missing
retryRenderHighlights(attempt, hs, cs) ==
  [attempt |-> attempt, scheduled |-> Len(hs) < Len(cs) /\ attempt < maxAttempts]

\* the selections the user makes in the message: from one offset to a later
\* one, or collapsed
PageSelections(ls) ==
  {sel \in Selections(ls) : sel.start < sel.end} \cup {Selection(0, 0)}

PageDocuments == {OneLeaf(t) : t \in Seqs(PageAlphabet, 0, MaxPageLen)}

\* the anchors of the comments stored for the message in an earlier session:
\* made by createAnchor of a selection, or stored with a quote and a hint
\* that the text does not bear out
PageAnchors(ls) ==
  ({createAnchor(sel, ls, getTextContent(ls)) : sel \in PageSelections(ls)} \ {Null})
    \cup {Anchor(fingerprint(getTextContent(ls)), <<c>>, <<>>, <<>>, <<>>, h) :
            c \in IF ls = <<>> THEN {} ELSE PageAlphabet, h \in {MaxPageLen}}

StoredComments(ls) ==
  {<<>>} \cup {<<createComment(1, a)>> : a \in PageAnchors(ls)}

PageInit ==
  /\ leaves \in PageDocuments
  /\ selection = NoSelection
  /\ anchor = NoAnchor
  /\ op = "init"
  /\ ret = Null
  /\ args = Null
  /\ dataJalMessage \in {NoElement, Null}
  /\ comments = <<>>
  /\ storage \in StoredComments(leaves)
  /\ highlights = <<>>
  /\ pendingHighlights = Null
  /\ retry = Null
  /\ TrackingIdle

\* the message element is inserted in the document
Appear ==
  /\ dataJalMessage = NoElement
  /\ dataJalMessage' = Null
  /\ op' = "appear"
  /\ ret' = Null
  /\ UNCHANGED tracking
  /\ UNCHANGED <<leaves, selection, anchor, args, comments, storage, highlights,
                 pendingHighlights, retry>>

\* JAL.markAllMessages
MarkAllMessages ==
  /\ dataJalMessage' = markAllMessages(dataJalMessage, messageText)
  /\ op' = "markAllMessages"
  /\ ret' = Null
  /\ UNCHANGED tracking
  /\ UNCHANGED <<leaves, selection, anchor, args, comments, storage, highlights,
                 pendingHighlights, retry>>

\* JAL.UI.renderHighlights
RenderHighlights ==
  /\ dataJalMessage' = markAllMessages(dataJalMessage, messageText)
  /\ highlights' = renderHighlights(highlights, comments, dataJalMessage', leaves)
  /\ op' = "renderHighlights"
  /\ ret' = Null
  /\ UNCHANGED tracking
  /\ UNCHANGED <<leaves, selection, anchor, args, comments, storage,
                 pendingHighlights, retry>>

\* JAL.loadComments: the comments are read from storage and drawn, and the
\* first retry is scheduled if a highlight is missing
LoadComments ==
  /\ retry = Null
  /\ comments' = storage
  /\ dataJalMessage' = markAllMessages(dataJalMessage, messageText)
  /\ highlights' = renderHighlights(highlights, comments', dataJalMessage', leaves)
  /\ retry' = retryRenderHighlights(0, highlights', comments')
  /\ op' = "loadComments"
  /\ ret' = Null
  /\ UNCHANGED tracking
  /\ UNCHANGED <<leaves, selection, anchor, args, storage, pendingHighlights>>

\* the timer of retryRenderHighlights fires: markAllMessages, renderHighlights,
\* and the next retry is scheduled if a highlight is still missing
RetryRenderHighlights ==
  /\ retry # Null
  /\ retry.scheduled
  /\ dataJalMessage' = markAllMessages(dataJalMessage, messageText)
  /\ highlights' = renderHighlights(highlights, comments, dataJalMessage', leaves)
  /\ retry' = retryRenderHighlights(retry.attempt + 1, highlights', comments)
  /\ op' = "retryRenderHighlights"
  /\ ret' = Null
  /\ UNCHANGED tracking
  /\ UNCHANGED <<leaves, selection, anchor, args, comments, storage, pendingHighlights>>

\* JAL.addCommentFromSelection with the selection the user made: the message
\* is marked, the anchor is created and the comment input is shown for it
\* (showCommentInput: pendingAnchor, the temporary highlight, the selection
\* is cleared)
AddCommentFromSelection ==
  /\ \E sel \in (IF dataJalMessage = NoElement THEN {} ELSE PageSelections(leaves))
                  \cup {NoSelection} :
       IF sel = NoSelection \/ isCollapsed(sel)
         THEN /\ selection' = sel
              /\ ret' = Null
              /\ UNCHANGED <<anchor, dataJalMessage, pendingHighlights>>
         ELSE /\ dataJalMessage' = markMessage(dataJalMessage, messageText)
              /\ ret' = createAnchor(sel, leaves, messageText)
              /\ IF ret' = Null
                   THEN /\ selection' = sel
                        /\ UNCHANGED <<anchor, pendingHighlights>>
                   ELSE /\ selection' = NoSelection
                        /\ anchor' = ret'
                        /\ pendingHighlights' =
                             IF createRangeForAnchor(ret', leaves) = Null
                               THEN pendingHighlights
                               ELSE createRangeForAnchor(ret', leaves)
  /\ op' = "addCommentFromSelection"
  /\ UNCHANGED tracking
  /\ UNCHANGED <<leaves, args, comments, storage, highlights, retry>>

\* JAL.UI.saveCommentFromInput: the comment of the pending anchor is stored and
\* pushed on JAL.state.comments, and the temporary highlight becomes its
\* highlight
SaveCommentFromInput ==
  /\ anchor # NoAnchor
  /\ Len(storage) < MaxComments
  /\ storage' = Append(storage, createComment(generateId(storage), anchor))
  /\ comments' = Append(comments, createComment(generateId(storage), anchor))
  /\ highlights' = IF pendingHighlights = Null THEN highlights
                   ELSE setHighlight(highlights, generateId(storage), pendingHighlights)
  /\ pendingHighlights' = Null
  /\ anchor' = NoAnchor
  /\ selection' = NoSelection
  /\ op' = "saveCommentFromInput"
  /\ ret' = Null
  /\ UNCHANGED tracking
  /\ UNCHANGED <<leaves, args, dataJalMessage, retry>>

\* the message grows while it streams: a character is added to the last text
\* node (the first one is created); the selection is gone by then
StreamOnPage ==
  /\ Len(messageText) < MaxPageLen
  /\ \E c \in PageAlphabet :
       leaves' = IF leaves = <<>>
                   THEN <<<<c>>>>
                   ELSE [leaves EXCEPT ![Len(leaves)] = Append(@, c)]
  /\ selection' = NoSelection
  /\ op' = "stream"
  /\ ret' = Null
  /\ UNCHANGED <<anchor, args, page, tracking>>

PageNext ==
  \/ Appear
  \/ MarkAllMessages
  \/ RenderHighlights
  \/ LoadComments
  \/ RetryRenderHighlights
  \/ AddCommentFromSelection
  \/ SaveCommentFromInput
  \/ StreamOnPage

PageSpec == PageInit /\ [][PageNext]_vars

\* the anchor of the comment with this id in a list of comments, if it is there
AnchorsKept(before, after) ==
  \A i \in 1..Len(before) : \A j \in 1..Len(after) :
    after[j].commentId = before[i].commentId => after[j].anchor = before[i].anchor

Drawn(hs, comment) == \E i \in 1..Len(hs) : hs[i].commentId = comment.commentId

\* C20: a pass of renderHighlights draws nothing for a comment whose anchor it
\* cannot materialise (no message bears the anchor's fingerprint, or
\* createRangeForAnchor returns null) and leaves JAL.state.comments and the
\* storage as they are; a pass in which the materialisation succeeds creates
\* the comment's highlight entry
C20_FailedMaterializationSkipsOnlyTheHighlight ==
  [][op' \in {"renderHighlights", "retryRenderHighlights"} =>
       /\ comments' = comments
       /\ storage' = storage
       /\ \A i \in 1..Len(comments) :
            IF materialize(comments[i], dataJalMessage', leaves) = Null
              THEN ~Drawn(highlights', comments[i])
              ELSE \E j \in 1..Len(highlights') :
                     highlights'[j] = Highlight(comments[i].commentId,
                                        materialize(comments[i], dataJalMessage', leaves))]_vars

\* a retry pass, scheduled because the comment's highlight was missing after
\* the pass before, has drawn the highlight of the only comment, whose anchor
\* createAnchor made
C20_Witness ==
  /\ op = "retryRenderHighlights"
  /\ Len(comments) = 1
  /\ storage = comments
  /\ comments[1].anchor.contextSentences # <<>>
  /\ Drawn(highlights, comments[1])

\* C27: in every renderHighlights pass in which the message is present, each
\* comment saved for an anchor created on it is matched to it, also when the
\* message streamed between its first marking and the anchor's creation
C27_CommentMatchedToItsMessage ==
  (op \in {"renderHighlights", "retryRenderHighlights"} /\ dataJalMessage # NoElement)
    => \A i \in 1..Len(comments) : targetMessage(comments[i], dataJalMessage)

(***************************************************************************)
(* Composer tracking: the interval of startComposerObserving, the polling  *)
(* chain of checkForRemovedComments, markCommentsAsAsked, the popup and    *)
(* panel handlers, and the background worker's UPDATE_COMMENT handler.     *)
(* A comment is its commentId and its status; its body is in the composer  *)
(* exactly when its id is in composerContent.                              *)
(***************************************************************************)
MaxTracked == 2
MaxInFlight == 2
MaxResponses == 1

CommentIds == 1..MaxTracked

\* text of the composer that is not the entry of a comment
UserText == 0

TrackedComment(id, status) == [commentId |-> id, status |-> status]

\* the commentIds of a list of comments
Ids(cs) == {cs[i].commentId : i \in DOMAIN cs}

\* comment.status = status for the comments of ids
setStatus(cs, ids, status) ==
  [i \in DOMAIN cs |-> IF cs[i].commentId \in ids
                         THEN [cs[i] EXCEPT !.status = status] ELSE cs[i]]

\* comments.filter(c => c.commentId !== id)
removeComment(cs, id) == SelectSeq(cs, LAMBDA c : c.commentId # id)

\* JAL.UI.updateCommentVisualState for the comments of ids: a comment with no
\* highlight is left alone
updateCommentVisualState(vs, ids, state) ==
  [id \in DOMAIN vs |-> IF id \in ids /\ vs[id] # "none" THEN state ELSE vs[id]]

\* JAL.Storage.updateComment(id, {status}) for the comments of ids, in the
\* order of the ids: one UPDATE_COMMENT message each, none awaited
RECURSIVE updateComment(_, _, _)
updateComment(bg, ids, status) ==
  IF ids = {} THEN bg
  ELSE LET id == CHOOSE x \in ids : \A y \in ids : x <= y
       IN  updateComment(Append(bg, [commentId |-> id, status |-> status,
                                     read |-> FALSE, allComments |-> <<>>]),
                         ids \ {id}, status)

\* the part of the state the tracking functions assign
Tracked(cic, cs, bg, vs, ec) ==
  [commentsInComposer |-> cic, comments |-> cs, background |-> bg,
   visualState |-> vs, emptyCheck |-> ec]

NotWaiting == [waiting |-> FALSE, initialCount |-> 0, pollCount |-> 0]

\* Mark all comments in composer as "asked"
markCommentsAsAsked(s) ==
  [s EXCEPT
     !.comments = setStatus(@, s.commentsInComposer, "queued"),
     !.background = updateComment(@, s.commentsInComposer \cap Ids(s.comments), "queued"),
     !.visualState = updateCommentVisualState(@, s.commentsInComposer \cap Ids(s.comments), "asked"),
     !.commentsInComposer = {}]

\* the timeout branch of pollForResponse, and the loop of
\* checkForRemovedComments over the comments of ids
markAsDraft(s, ids) ==
  [s EXCEPT
     !.commentsInComposer = @ \ (ids \cap Ids(s.comments)),
     !.comments = setStatus(@, ids, "draft"),
     !.background = updateComment(@, ids \cap Ids(s.comments), "draft"),
     !.visualState = updateCommentVisualState(@, ids \cap Ids(s.comments), "draft")]

maxPolls == 10

\* the timer callback of checkForRemovedComments
pollForResponse(s, isStreaming, currentCount) ==
  IF isStreaming \/ currentCount > s.emptyCheck.initialCount
    THEN markCommentsAsAsked([s EXCEPT !.emptyCheck = NotWaiting])
  ELSE IF s.emptyCheck.pollCount + 1 < maxPolls
    THEN [s EXCEPT !.emptyCheck.pollCount = @ + 1]
  ELSE markAsDraft([s EXCEPT !.emptyCheck = NotWaiting], s.commentsInComposer)

\* Check if any comments were removed from the composer
checkForRemovedComments(s, content, currentCount) ==
  IF s.commentsInComposer = {} THEN s
  ELSE IF content = {}
    THEN IF s.emptyCheck.waiting THEN s
         ELSE [s EXCEPT !.emptyCheck = [waiting |-> TRUE, initialCount |-> currentCount,
                                        pollCount |-> 0]]
  ELSE markAsDraft(s, {id \in s.commentsInComposer : id \notin content})

\* Get the visual state of a comment
getCommentVisualState(cic, cs, id) ==
  IF id \in cic THEN "added"
  ELSE IF id \notin Ids(cs) THEN "draft"
  ELSE IF \E i \in DOMAIN cs : cs[i].commentId = id /\ cs[i].status \in {"queued", "sent"}
    THEN "asked"
  ELSE "draft"

\* renderHighlights: the highlights of the comments, each in its visual state
drawAll(cic, cs) ==
  [id \in CommentIds |-> IF id \in Ids(cs) THEN getCommentVisualState(cic, cs, id)
                         ELSE "none"]

\* the variables composer tracking does not touch
anchoring == <<leaves, selection, anchor, ret, args, dataJalMessage, highlights,
               pendingHighlights, retry>>

\* the comments of the page, all drafts, stored and drawn
ComposerInit ==
  /\ leaves = <<>>
  /\ selection = NoSelection
  /\ anchor = NoAnchor
  /\ op = "init"
  /\ ret = Null
  /\ args = Null
  /\ dataJalMessage = Null
  /\ highlights = <<>>
  /\ pendingHighlights = Null
  /\ retry = Null
  /\ \E n \in 1..MaxTracked :
       /\ comments = [i \in 1..n |-> TrackedComment(i, "draft")]
       /\ storage = comments
       /\ visualState = drawAll({}, comments)
  /\ commentsInComposer = {}
  /\ composerContent = {}
  /\ userMessages = {}
  /\ assistant = [count |-> 0, streaming |-> FALSE, awaited |-> FALSE]
  /\ emptyCheck = NotWaiting
  /\ observing = [lastAssistantCount |-> 0, waitingForResponse |-> FALSE]
  /\ background = <<>>
  /\ selectedComments = {}
  /\ jumpStack = <<>>
  /\ pendingJump = Null

Current == Tracked(commentsInComposer, comments, background, visualState, emptyCheck)

\* the tracking functions' assignments take effect
Assign(s) ==
  /\ Len(s.background) <= MaxInFlight
  /\ commentsInComposer' = s.commentsInComposer
  /\ comments' = s.comments
  /\ background' = s.background
  /\ visualState' = s.visualState
  /\ emptyCheck' = s.emptyCheck

\* the user acts while no update is in flight
\* the + button of a comment's popup, enabled for a draft: the entry is
\* appended to the composer when the composer element is found
AddCommentToComposer ==
  /\ background = <<>>
  /\ \E id \in Ids(comments), success \in BOOLEAN :
       /\ getCommentVisualState(commentsInComposer, comments, id) = "draft"
       /\ IF id \in commentsInComposer \/ ~success
            THEN UNCHANGED <<commentsInComposer, composerContent, visualState>>
            ELSE /\ composerContent' = composerContent \cup {id}
                 /\ commentsInComposer' = commentsInComposer \cup {id}
                 /\ visualState' = updateCommentVisualState(visualState, {id}, "added")
  /\ op' = "addCommentToComposer"
  /\ UNCHANGED <<anchoring, comments, storage, userMessages, assistant, emptyCheck,
                 observing, background, selectedComments, jumpStack, pendingJump>>

\* the user edits the composer: entries or other text are removed, or text is
\* typed
UserEditsComposer ==
  /\ background = <<>>
  /\ \E content \in SUBSET (composerContent \cup {UserText}) :
       /\ content # composerContent
       /\ composerContent' = content
  /\ op' = "edit"
  /\ UNCHANGED <<anchoring, comments, storage, commentsInComposer, userMessages,
                 assistant, visualState, emptyCheck, observing, background,
                 selectedComments, jumpStack, pendingJump>>

\* the user sends the message: the composer becomes empty and a response is
\* awaited
UserSends ==
  /\ background = <<>>
  /\ composerContent # {}
  /\ ~assistant.awaited /\ ~assistant.streaming
  /\ assistant.count < MaxResponses
  /\ userMessages' = userMessages \cup (composerContent \ {UserText})
  /\ composerContent' = {}
  /\ assistant' = [assistant EXCEPT !.awaited = TRUE]
  /\ op' = "send"
  /\ UNCHANGED <<anchoring, comments, storage, commentsInComposer, visualState,
                 emptyCheck, observing, background, selectedComments, jumpStack,
                 pendingJump>>

\* the response starts: a new assistant message appears and streams
ResponseStarts ==
  /\ assistant.awaited
  /\ assistant' = [count |-> assistant.count + 1, streaming |-> TRUE, awaited |-> FALSE]
  /\ op' = "responseStarts"
  /\ UNCHANGED <<anchoring, comments, storage, commentsInComposer, composerContent,
                 userMessages, visualState, emptyCheck, observing, background,
                 selectedComments, jumpStack, pendingJump>>

ResponseCompletes ==
  /\ assistant.streaming
  /\ assistant' = [assistant EXCEPT !.streaming = FALSE]
  /\ op' = "responseCompletes"
  /\ UNCHANGED <<anchoring, comments, storage, commentsInComposer, composerContent,
                 userMessages, visualState, emptyCheck, observing, background,
                 selectedComments, jumpStack, pendingJump>>

\* the callback of the interval of startComposerObserving
ComposerInterval ==
  /\ LET checked == checkForRemovedComments(Current, composerContent, assistant.count)
     IN  IF checked.commentsInComposer = {}
           THEN /\ Assign(checked)
                /\ observing' = [observing EXCEPT !.waitingForResponse = FALSE]
         ELSE IF ~observing.waitingForResponse
           THEN /\ Assign(checked)
                /\ observing' = [lastAssistantCount |-> assistant.count,
                                 waitingForResponse |-> TRUE]
         ELSE IF assistant.count > observing.lastAssistantCount /\ ~assistant.streaming
           THEN /\ Assign(markCommentsAsAsked(checked))
                /\ observing' = [lastAssistantCount |-> assistant.count,
                                 waitingForResponse |-> FALSE]
         ELSE /\ Assign(checked)
              /\ UNCHANGED observing
  /\ op' = "composerInterval"
  /\ UNCHANGED <<anchoring, storage, composerContent, userMessages, assistant,
                 selectedComments, jumpStack, pendingJump>>

\* the timer of checkForRemovedComments fires
PollForResponse ==
  /\ emptyCheck.waiting
  /\ Assign(pollForResponse(Current, assistant.streaming, assistant.count))
  /\ op' = "pollForResponse"
  /\ UNCHANGED <<anchoring, storage, composerContent, userMessages, assistant,
                 observing, selectedComments, jumpStack, pendingJump>>

\* background updateComment, up to its first await: the oldest handler that
\* has not read yet gets 'comments'
UpdateCommentGet ==
  /\ \E i \in DOMAIN background :
       /\ ~background[i].read
       /\ \A j \in 1..(i - 1) : background[j].read
       /\ background' = [background EXCEPT ![i] = [@ EXCEPT !.read = TRUE,
                                                            !.allComments = storage]]
  /\ op' = "updateCommentGet"
  /\ UNCHANGED <<anchoring, comments, storage, commentsInComposer, composerContent,
                 userMessages, assistant, visualState, emptyCheck, observing,
                 selectedComments, jumpStack, pendingJump>>

\* background updateComment, after the await: the oldest handler merges the
\* updates into the comment of the list it read and sets 'comments'
UpdateCommentSet ==
  /\ background # <<>>
  /\ Head(background).read
  /\ storage' = IF Head(background).commentId \in Ids(Head(background).allComments)
                  THEN setStatus(Head(background).allComments,
                                 {Head(background).commentId}, Head(background).status)
                  ELSE storage
  /\ background' = Tail(background)
  /\ op' = "updateCommentSet"
  /\ UNCHANGED <<anchoring, comments, commentsInComposer, composerContent, userMessages,
                 assistant, visualState, emptyCheck, observing, selectedComments,
                 jumpStack, pendingJump>>

\* the delete button of a comment's popup, with no update in flight
DeleteFromPopup ==
  /\ background = <<>>
  /\ \E id \in Ids(comments) :
       /\ storage' = removeComment(storage, id)
       /\ comments' = removeComment(comments, id)
       /\ commentsInComposer' = commentsInComposer \ {id}
       /\ visualState' = [visualState EXCEPT ![id] = "none"]
  /\ op' = "deleteFromPopup"
  /\ UNCHANGED <<anchoring, composerContent, userMessages, assistant, emptyCheck,
                 observing, background, selectedComments, jumpStack, pendingJump>>

\* the delete button of a comment's card in the panel, with no update in
\* flight
DeleteFromPanel ==
  /\ background = <<>>
  /\ \E id \in Ids(comments) :
       /\ storage' = removeComment(storage, id)
       /\ comments' = removeComment(comments, id)
       /\ selectedComments' = selectedComments \ {id}
       /\ visualState' = drawAll(commentsInComposer, comments')
  /\ op' = "deleteFromPanel"
  /\ UNCHANGED <<anchoring, commentsInComposer, composerContent, userMessages,
                 assistant, emptyCheck, observing, background, jumpStack, pendingJump>>

\* the user navigates to a conversation that has no comments
HandleUrlChange ==
  /\ background = <<>>
  /\ comments # <<>>
  /\ comments' = <<>>
  /\ selectedComments' = {}
  /\ commentsInComposer' = {}
  /\ visualState' = drawAll({}, <<>>)
  /\ op' = "handleUrlChange"
  /\ UNCHANGED <<anchoring, storage, composerContent, userMessages, assistant,
                 emptyCheck, observing, background, jumpStack, pendingJump>>

ComposerNext ==
  \/ AddCommentToComposer
  \/ UserEditsComposer
  \/ UserSends
  \/ ResponseStarts
  \/ ResponseCompletes
  \/ ComposerInterval
  \/ PollForResponse
  \/ UpdateCommentGet
  \/ UpdateCommentSet
  \/ DeleteFromPopup
  \/ DeleteFromPanel
  \/ HandleUrlChange

ComposerSpec == ComposerInit /\ [][ComposerNext]_vars

\* the status of comment id in a list of comments
statusOf(cs, id) == (CHOOSE c \in Range(cs) : c.commentId = id).status

\* C25: a tracked comment whose entry was in the message the user sent is
\* never set back to draft: while it is on the page it is still tracked or
\* its status is 'queued'
C25_SentCommentsEndQueued ==
  \A id \in userMessages \cap Ids(comments) :
    id \in commentsInComposer \/ statusOf(comments, id) = "queued"

\* C26: once every background handler has completed, each comment of the
\* page has in chrome.storage the status the content script gave it last
C26_NoUpdateLost ==
  background = <<>> =>
    \A id \in Ids(comments) \cap Ids(storage) :
      statusOf(storage, id) = statusOf(comments, id)

\* C29: every id in commentsInComposer is the id of a comment of
\* JAL.state.comments, and the highlight of a comment is in state 'added'
\* exactly when its id is in commentsInComposer
C29_ComposerSetMatchesComments ==
  /\ commentsInComposer \subseteq Ids(comments)
  /\ \A id \in Ids(comments) :
       id \in DOMAIN visualState =>
         (visualState[id] = "added" <=> id \in commentsInComposer)

(***************************************************************************)
(* Jump and link: sendSelected and jumpReturn on the jump stack of the     *)
(* page.  A jump frame is the ids of the comments it sent.                 *)
(***************************************************************************)
MaxJumps == 2

\* Storage.createJumpFrame
createJumpFrame(threadIdsSent) == [threadIdsSent |-> threadIdsSent]

\* JAL.state.comments.filter(c => JAL.state.selectedComments.has(c.commentId))
selected == Ids(comments) \cap selectedComments

\* the checkbox of a comment's card
SelectComment ==
  /\ \E id \in Ids(comments) :
       selectedComments' = IF id \in selectedComments
                             THEN selectedComments \ {id}
                             ELSE selectedComments \cup {id}
  /\ op' = "selectComment"
  /\ ret' = Null
  /\ UNCHANGED <<leaves, selection, anchor, args, page, commentsInComposer,
                 composerContent, userMessages, assistant, visualState, emptyCheck,
                 observing, background, jumpStack, pendingJump>>

\* Send selected comments: the frame is pushed and made the pending jump,
\* then the prompt is inserted if the composer element is found
SendSelected ==
  /\ Len(jumpStack) < MaxJumps
  /\ op' = "sendSelected"
  /\ IF selected = {}
       THEN /\ ret' = [inserted |-> FALSE]
            /\ UNCHANGED <<jumpStack, pendingJump, composerContent, comments, storage,
                           selectedComments>>
       ELSE /\ jumpStack' = Append(jumpStack, createJumpFrame(selected))
            /\ pendingJump' = createJumpFrame(selected)
            /\ \E success \in BOOLEAN :
                 /\ ret' = [inserted |-> success]
                 /\ IF success
                      THEN /\ composerContent' = selected
                           /\ storage' = setStatus(storage, selected, "queued")
                           /\ comments' = setStatus(comments, selected, "queued")
                           /\ selectedComments' = {}
                      ELSE UNCHANGED <<composerContent, comments, storage,
                                       selectedComments>>
  /\ UNCHANGED <<leaves, selection, anchor, args, dataJalMessage, highlights,
                 pendingHighlights, retry, commentsInComposer, userMessages,
                 assistant, visualState, emptyCheck, observing, background>>

\* Jump return: the last frame of the stored stack is popped
JumpReturn ==
  /\ op' = "jumpReturn"
  /\ IF jumpStack = <<>>
       THEN /\ ret' = [success |-> FALSE]
            /\ UNCHANGED jumpStack
       ELSE /\ ret' = [success |-> TRUE, frame |-> jumpStack[Len(jumpStack)]]
            /\ jumpStack' = SubSeq(jumpStack, 1, Len(jumpStack) - 1)
  /\ UNCHANGED <<leaves, selection, anchor, args, page, commentsInComposer,
                 composerContent, userMessages, assistant, visualState, emptyCheck,
                 observing, background, selectedComments, pendingJump>>

JumpNext ==
  \/ SelectComment
  \/ SendSelected
  \/ JumpReturn

JumpSpec == ComposerInit /\ [][JumpNext]_vars

\* C30: a call of sendSelected that inserted no prompt, because no comment
\* was selected or insertIntoComposer returned false, leaves the stored jump
\* stack and JAL.state.pendingJump as they were
C30_FailedSendLeavesNoFrame ==
  [][(op' = "sendSelected" /\ ~ret'.inserted)
       => (jumpStack' = jumpStack /\ pendingJump' = pendingJump)]_vars

====
